---- MODULE Spec2Model ----
(***************************************************************************)
(* tracklib: the filter lifecycle (init / reset / predict / correct /       *)
(* distance / likelihood) of EKFilterAN, EKFilterNAN and IMMFilter.         *)
(*                                                                         *)
(* Numbers are exact rationals.  numpy's float64 results agree with them    *)
(* "to numerical tolerance"; an exact model makes a deviation of the code   *)
(* from a stated identity a plain inequality.  TLC's integers are 32 bit,   *)
(* so numerators and denominators are kept as limb sequences.              *)
(***************************************************************************)
EXTENDS Integers, Sequences, FiniteSets, TLC

(* Natural numbers of any size: little-endian limbs in base 10^4, no leading zero limb. *)
Base == 100 * 100

NOf(v) ==
    IF v = 0 THEN << >>
    ELSE IF v < Base THEN <<v>>
    ELSE IF v < Base * Base THEN <<v % Base, v \div Base>>
    ELSE <<v % Base, (v \div Base) % Base, v \div (Base * Base)>>

NSmall(a) == Len(a) <= 2

NVal(a) ==
    IF Len(a) = 0 THEN 0 ELSE IF Len(a) = 1 THEN a[1] ELSE a[1] + Base * a[2]

RECURSIVE NStrip(_)
NStrip(a) ==
    IF Len(a) = 0 THEN a
    ELSE IF a[Len(a)] = 0 THEN NStrip(SubSeq(a, 1, Len(a) - 1)) ELSE a

RECURSIVE NAddC(_, _, _, _)
NAddC(a, b, i, c) ==
    IF i > Len(a) /\ i > Len(b)
    THEN IF c = 0 THEN << >> ELSE <<c>>
    ELSE LET x == (IF i <= Len(a) THEN a[i] ELSE 0) + (IF i <= Len(b) THEN b[i] ELSE 0) + c
         IN  <<x % Base>> \o NAddC(a, b, i + 1, x \div Base)

NAdd(a, b) ==
    IF NSmall(a) /\ NSmall(b) THEN NOf(NVal(a) + NVal(b)) ELSE NAddC(a, b, 1, 0)

RECURSIVE NSubC(_, _, _, _)
NSubC(a, b, i, c) ==
    IF i > Len(a) THEN << >>
    ELSE LET x == a[i] - (IF i <= Len(b) THEN b[i] ELSE 0) - c
         IN  IF x < 0 THEN <<x + Base>> \o NSubC(a, b, i + 1, 1)
                      ELSE <<x>> \o NSubC(a, b, i + 1, 0)

(* a - b for a >= b *)
NSub(a, b) ==
    IF NSmall(a) /\ NSmall(b) THEN NOf(NVal(a) - NVal(b)) ELSE NStrip(NSubC(a, b, 1, 0))

RECURSIVE NCmpAt(_, _, _)
NCmpAt(a, b, i) ==
    IF i = 0 THEN 0
    ELSE IF a[i] < b[i] THEN -1
    ELSE IF a[i] > b[i] THEN 1
    ELSE NCmpAt(a, b, i - 1)

NCmp(a, b) ==
    IF Len(a) < Len(b) THEN -1
    ELSE IF Len(a) > Len(b) THEN 1
    ELSE NCmpAt(a, b, Len(a))

RECURSIVE NMulSmallC(_, _, _, _)
NMulSmallC(a, k, i, c) ==
    IF i > Len(a)
    THEN IF c = 0 THEN << >> ELSE <<c>>
    ELSE LET x == a[i] * k + c
         IN  <<x % Base>> \o NMulSmallC(a, k, i + 1, x \div Base)

NMulSmall(a, k) == IF k = 0 THEN << >> ELSE NMulSmallC(a, k, 1, 0)

RECURSIVE NMulAt(_, _, _)
NMulAt(a, b, j) ==
    IF j > Len(b) THEN << >>
    ELSE LET rest == NMulAt(a, b, j + 1)
             sh   == IF Len(rest) = 0 THEN << >> ELSE <<0>> \o rest
         IN  NAddC(NMulSmall(a, b[j]), sh, 1, 0)

NMul(a, b) ==
    IF Len(a) = 0 \/ Len(b) = 0 THEN << >>
    ELSE IF NSmall(a) /\ NSmall(b) /\ NVal(b) <= 2147483647 \div NVal(a)
    THEN NOf(NVal(a) * NVal(b))
    ELSE NMulAt(a, b, 1)

(* the largest k in lo..hi with k*b <= r, given lo*b <= r *)
RECURSIVE NQDigit(_, _, _, _)
NQDigit(r, b, lo, hi) ==
    IF lo >= hi THEN lo
    ELSE IF NCmp(NMulSmall(b, (lo + hi + 1) \div 2), r) <= 0
    THEN NQDigit(r, b, (lo + hi + 1) \div 2, hi)
    ELSE NQDigit(r, b, lo, (lo + hi + 1) \div 2 - 1)

(* rtop: the leading limbs of r over the leading limb of b bound the quotient digit *)
NQBounds(r, b, rtop) ==
    NQDigit(r, b, rtop \div (b[Len(b)] + 1),
            IF rtop \div b[Len(b)] > Base - 1 THEN Base - 1 ELSE rtop \div b[Len(b)])

NQEst(r, b) ==
    IF NCmp(r, b) < 0 THEN 0
    ELSE NQBounds(r, b, r[Len(b)] + (IF Len(r) > Len(b) THEN Base * r[Len(b) + 1] ELSE 0))

(* one digit k of the quotient: <<quotient so far, remainder>> *)
NDivOut(b, q, r1, k) ==
    << NStrip(<<k>> \o q), IF k = 0 THEN r1 ELSE NSub(r1, NMulSmall(b, k)) >>
NDivDigit(b, q, r1) == NDivOut(b, q, r1, NQEst(r1, b))
NDivStep(b, limb, up) == NDivDigit(b, up[1], NStrip(<<limb>> \o up[2]))

(* long division, most significant limb first: <<quotient, remainder>> *)
RECURSIVE NDivAt(_, _, _)
NDivAt(a, b, i) ==
    IF i > Len(a) THEN << << >>, << >> >>
    ELSE NDivStep(b, a[i], NDivAt(a, b, i + 1))

NDivMod(a, b) ==
    IF NSmall(a) /\ NSmall(b)
    THEN << NOf(NVal(a) \div NVal(b)), NOf(NVal(a) % NVal(b)) >>
    ELSE IF NCmp(a, b) < 0 THEN << << >>, a >>
    ELSE NDivAt(a, b, 1)

RECURSIVE GcdInt(_, _)
GcdInt(x, y) == IF y = 0 THEN x ELSE GcdInt(y, x % y)

RECURSIVE NGcd(_, _)
NGcd(a, b) ==
    IF Len(b) = 0 THEN a
    ELSE IF NSmall(a) /\ NSmall(b) THEN NOf(GcdInt(NVal(a), NVal(b)))
    ELSE NGcd(b, NDivMod(a, b)[2])

(* Rationals in lowest terms: <<sign, numerator, denominator>>, sign in       *)
(* {-1,0,1}.  QNaN is what float64 gives for x/0 and for any operation on it. *)
NOne == <<1>>
QZero == <<0, << >>, NOne>>
QNaN == <<2, << >>, << >> >>
IsNaN(x) == x[1] = 2
(* nd = <<numerator, denominator>>, g their greatest common divisor *)
QReduce(s, nd, g) ==
    IF g = NOne THEN <<s, nd[1], nd[2]>>
    ELSE <<s>> \o [k \in 1..2 |-> NDivMod(nd[k], g)[1]]
QMake(s, n, d) ==
    IF Len(n) = 0 THEN QZero
    ELSE IF d = NOne THEN <<s, n, d>>
    ELSE QReduce(s, <<n, d>>, NGcd(n, d))

QInt(v) == IF v = 0 THEN QZero ELSE IF v < 0 THEN <<-1, NOf(-v), NOne>> ELSE <<1, NOf(v), NOne>>
QFrac(a, b) == IF a < 0 THEN QMake(-1, NOf(-a), NOf(b)) ELSE QMake(1, NOf(a), NOf(b))
QNeg(x) == IF IsNaN(x) THEN QNaN ELSE <<-x[1], x[2], x[3]>>
(* the products l[k] * r[k] *)
NMuls(l, r) == [k \in 1..Len(l) |-> NMul(l[k], r[k])] \o << >>
QMulN(s, p) == QMake(s, p[1], p[2])
QMul(x, y) ==
    IF IsNaN(x) \/ IsNaN(y) THEN QNaN
    ELSE IF x[1] = 0 \/ y[1] = 0 THEN QZero
    ELSE QMulN(x[1] * y[1], NMuls(<<x[2], x[3]>>, <<y[2], y[3]>>))
QInv(x) == IF IsNaN(x) \/ x[1] = 0 THEN QNaN ELSE <<x[1], x[3], x[2]>>
QDiv(x, y) == QMul(x, QInv(y))
(* p = <<a, b, d>> for a/d + b/d with signs sx, sy; c compares a with b *)
QAddC(sx, sy, p, c) ==
    IF sx # sy /\ c = 0 THEN QZero
    ELSE QMake(IF sx = sy \/ c > 0 THEN sx ELSE sy,
               IF sx = sy THEN NAdd(p[1], p[2])
               ELSE NSub(IF c > 0 THEN p[1] ELSE p[2], IF c > 0 THEN p[2] ELSE p[1]),
               p[3])
QAddN(sx, sy, p) == QAddC(sx, sy, p, NCmp(p[1], p[2]))
QAdd(x, y) ==
    IF IsNaN(x) \/ IsNaN(y) THEN QNaN
    ELSE IF x[1] = 0 THEN y
    ELSE IF y[1] = 0 THEN x
    ELSE QAddN(x[1], y[1], NMuls(<<x[2], y[2], x[3]>>, <<y[3], x[3], y[3]>>))
QSub(x, y) == QAdd(x, QNeg(y))
QSign(x) == x[1]
QLt(x, y) == QSign(QSub(x, y)) = -1
QLe(x, y) == QSign(QSub(x, y)) \in {-1, 0}

(***************************************************************************)
(* Vectors are sequences of rationals, matrices sequences of rows.          *)
(* None stands for Python's None (a state or covariance never assigned).    *)
(***************************************************************************)
None == << >>

(* a sequence given by a rule, turned into the explicit tuple of its values *)
Fix(f) == f \o << >>
Vec(n, e(_)) == Fix([i \in 1..n |-> e(i)])
Mat(n, m, e(_, _)) == Fix([i \in 1..n |-> Fix([j \in 1..m |-> e(i, j)])])

RECURSIVE QSum(_, _)
QSum(f, n) == IF n = 0 THEN QZero ELSE QAdd(QSum(f, n - 1), f[n])

Rows(A) == Len(A)
Cols(A) == IF Len(A) = 0 THEN 0 ELSE Len(A[1])

VecAdd(x, y) == Vec(Len(x), LAMBDA i : QAdd(x[i], y[i]))
VecSub(x, y) == Vec(Len(x), LAMBDA i : QSub(x[i], y[i]))
VecScale(c, x) == Vec(Len(x), LAMBDA i : QMul(c, x[i]))
Dot(x, y) == QSum(Vec(Len(x), LAMBDA i : QMul(x[i], y[i])), Len(x))
ZeroVec(n) == Vec(n, LAMBDA i : QZero)

MatAdd(A, B) == Mat(Rows(A), Cols(A), LAMBDA i, j : QAdd(A[i][j], B[i][j]))
MatSub(A, B) == Mat(Rows(A), Cols(A), LAMBDA i, j : QSub(A[i][j], B[i][j]))
MatScale(c, A) == Mat(Rows(A), Cols(A), LAMBDA i, j : QMul(c, A[i][j]))
Transpose(A) == Mat(Cols(A), Rows(A), LAMBDA j, i : A[i][j])
MatMul(A, B) ==
    Mat(Rows(A), Cols(B), LAMBDA i, j :
        QSum(Vec(Cols(A), LAMBDA k : QMul(A[i][k], B[k][j])), Cols(A)))
MatVec(A, x) == Vec(Rows(A), LAMBDA i : Dot(A[i], x))
Outer(x, y) == Mat(Len(x), Len(y), LAMBDA i, j : QMul(x[i], y[j]))
Eye(n) == Mat(n, n, LAMBDA i, j : IF i = j THEN QInt(1) ELSE QZero)
ZeroMat(n, m) == Mat(n, m, LAMBDA i, j : QZero)
Trace(A) == QSum(Vec(Rows(A), LAMBDA i : A[i][i]), Rows(A))

(* the fault "the line P = (P + P.T) / 2 is missing" *)
NotSymmetrized(A) == A

(* (A + A.T) / 2 *)
Symmetrize(A) == MatScale(QFrac(1, 2), MatAdd(A, Transpose(A)))

(* scipy.linalg.det / inv of a 1x1 or 2x2 matrix; inv of a singular matrix raises *)
Det(A) ==
    IF Rows(A) = 1 THEN A[1][1]
    ELSE QSub(QMul(A[1][1], A[2][2]), QMul(A[1][2], A[2][1]))
Singular(A) == Det(A) = QZero
Inv(A) ==
    IF Rows(A) = 1 THEN << <<QInv(A[1][1])>> >>
    ELSE MatScale(QInv(Det(A)),
                  << <<A[2][2], QNeg(A[1][2])>>, <<QNeg(A[2][1]), A[1][1]>> >>)

VecOfInts(v) == Vec(Len(v), LAMBDA i : QInt(v[i]))
MatOfInts(A) == Mat(Len(A), Len(A[1]), LAMBDA i, j : QInt(A[i][j]))

(***************************************************************************)
(* Model provider (tracklib.model): polynomial motion models on one axis    *)
(* with sampling interval T = 1, and the model-type switch.                 *)
(***************************************************************************)
RECURSIVE Factorial(_)
Factorial(k) == IF k = 0 THEN 1 ELSE k * Factorial(k - 1)

(* F_poly(order, 0, 1): F_base[row, col] = T^(col-row) / (col-row)! for col >= row *)
F_poly(order) ==
    Fix([i \in 1..(order + 1) |-> Fix([j \in 1..(order + 1) |->
        IF j >= i THEN QFrac(1, Factorial(j - i)) ELSE QZero])])

(* H_only_pos(order, 0): the first row of the identity *)
H_only_pos(order) ==
    << Fix([j \in 1..(order + 1) |-> IF j = 1 THEN QInt(1) ELSE QZero]) >>

F_cv == F_poly(1)
H_cv == H_only_pos(1)
F_ca == F_poly(2)
H_ca == H_only_pos(2)

ModelTypes == {"cv", "ca", "ct2D"}
TypeDim(type) == IF type = "cv" THEN 2 ELSE 3
TypeF(type) == IF type = "cv" THEN F_cv ELSE F_ca
TypeH(type) == IF type = "cv" THEN H_cv ELSE H_ca

(* the fault "the Jacobian of f is taken to be the identity" *)
IdentityJacobian(type, x, u) == Eye(Len(x))

(* the functions handed to a filter's constructor: f, h, their Jacobians and Hessians *)
Fn_f(type, x, u) == MatVec(TypeF(type), x)
Fn_h(type, x) == MatVec(TypeH(type), x)
Fn_fjac(type, x, u) == TypeF(type)
Fn_hjac(type, x) == TypeH(type)
Fn_fhes(type, x, u) == Fix([i \in 1..Len(x) |-> ZeroMat(Len(x), Len(x))])
Fn_hhes(type, x) == Fix([i \in 1..Rows(TypeH(type)) |-> ZeroMat(Len(x), Len(x))])

(* quad = [trace(HES[:, :, i] @ cov) for i in range(dim)] / 2 *)
Quad(hes, cov) ==
    Fix([i \in 1..Len(hes) |-> QMul(QFrac(1, 2), Trace(MatMul(hes[i], cov)))])

(***************************************************************************)
(* KFBase: the fields every filter starts with.                            *)
(***************************************************************************)
KFBase == [state |-> None, cov |-> None, len |-> 0, init |-> FALSE]

(* an operation's outcome: the object after it, the exception raised ("ok" for *)
(* none) and the value returned                                               *)
Outcome(self, err, ret) == [self |-> self, err |-> err, ret |-> ret]
NotInitialized == "RuntimeError: filter must be initialized with init() before use"
NoModels == "RuntimeError: models must be added before calling init"
InvalidOrder == "ValueError: order must be 1 or 2"
LinAlgError == "LinAlgError: singular matrix"
AttributeError == "AttributeError"

ValueError == "ValueError"
(* raise ValueError('unknown output type ...') / ('unkonw input type ...') *)
UnknownType == "ValueError: unknown model type"
(* numpy's ValueError for a product of arrays whose shapes do not fit *)
ShapeError == "ValueError: shapes not aligned"

Has(kwargs, k) == k \in DOMAIN kwargs
NoKw == [k \in {} |-> None]

(* "if k in kwargs: dst[:] = kwargs[k]": numpy writes the given matrix into  *)
(* the stored one in place, broadcasting it, and raises when it cannot       *)
AssignFails(dst, kwargs, k) ==
    Has(kwargs, k) /\ ~(Rows(kwargs[k]) \in {1, Rows(dst)} /\ Cols(kwargs[k]) \in {1, Cols(dst)})
Assigned(dst, kwargs, k) ==
    IF ~Has(kwargs, k) THEN dst
    ELSE Mat(Rows(dst), Cols(dst), LAMBDA i, j :
             kwargs[k][IF Rows(kwargs[k]) = 1 THEN 1 ELSE i][IF Cols(kwargs[k]) = 1 THEN 1 ELSE j])

(* "v = x; In(v)": x under a name of its own *)
Let(x, In(_)) == In(x)

(* "if self._order == 2: v += quad / 2" *)
SecondOrder(order, v, hes, cov) == IF order = 2 THEN VecAdd(v, Quad(hes, cov)) ELSE v

(* the prediction: state = f(x, u) (+ quad), cov = sym(F P F' + Q~) *)
Predicted(self, u, F, Q_tilde, f_x) ==
    << SecondOrder(self.order, f_x, Fn_fhes(self.type, self.state, u), self.cov),
       Symmetrize(MatAdd(MatMul(MatMul(F, self.cov), Transpose(F)), Q_tilde)) >>

(* the pair is stored and returned *)
Stored(self, sc) == Outcome([self EXCEPT !.state = sc[1], !.cov = sc[2]], "ok", sc)

(* innov = z - z_pred; S = sym(H P H' + R~); K = P H' inv(S);                 *)
(* state = prior_state + K innov; cov = sym(P - K S K')                       *)
KalmanGain(prior_state, prior_cov, innov, S, K) ==
    [ok |-> TRUE,
     state |-> VecAdd(prior_state, MatVec(K, innov)),
     cov |-> Symmetrize(MatSub(prior_cov, MatMul(MatMul(K, S), Transpose(K))))]
KalmanInnov(prior_state, prior_cov, H, innov, S) ==
    IF Singular(S) THEN [ok |-> FALSE, state |-> None, cov |-> None]
    ELSE KalmanGain(prior_state, prior_cov, innov, S,
                    MatMul(MatMul(prior_cov, Transpose(H)), Inv(S)))
KalmanUpdate(prior_state, prior_cov, H, z_pred, R_tilde, z) ==
    KalmanInnov(prior_state, prior_cov, H, VecSub(z, z_pred),
                Symmetrize(MatAdd(MatMul(MatMul(H, prior_cov), Transpose(H)), R_tilde)))

(* the measurement predicted about the current iterate:                     *)
(* h(x) + H (prior_state - x) (+ quad)                                       *)
Relinearized(self, prior_state, H) ==
    SecondOrder(self.order,
                VecAdd(Fn_h(self.type, self.state), MatVec(H, VecSub(prior_state, self.state))),
                Fn_hhes(self.type, self.state), self.cov)

(* the loop "for _ in range(self._it)" of correct, k iterations left *)
RECURSIVE EKF_iterate(_, _, _, _, _, _)
(* the fault "an iteration starts from the previous iterate": the update just *)
(* made takes the place of the prior in the iterations that follow            *)
StepFromIterate(self, prior_state, prior_cov, M, z, k, upd) ==
    IF ~upd.ok THEN Outcome(self, LinAlgError, None)
    ELSE EKF_iterate([self EXCEPT !.state = upd.state, !.cov = upd.cov],
                     upd.state, upd.cov, M, z, k)
EKF_step(self, prior_state, prior_cov, M, z, k, upd) ==
    IF ~upd.ok THEN Outcome(self, LinAlgError, None)
    ELSE EKF_iterate([self EXCEPT !.state = upd.state, !.cov = upd.cov],
                     prior_state, prior_cov, M, z, k)
EKF_iterate(self, prior_state, prior_cov, M, z, k) ==
    IF k = 0 THEN Outcome(self, "ok", <<self.state, self.cov>>)
    ELSE EKF_step(self, prior_state, prior_cov, M, z, k - 1,
                  KalmanUpdate(prior_state, prior_cov, Fn_hjac(self.type, self.state),
                               Relinearized(self, prior_state, Fn_hjac(self.type, self.state)),
                               MatMul(MatMul(M, self.R), Transpose(M)), z))

(* the first update of correct, about the prior itself, then the iterations *)
Corrected(self, H, M, z_h, z) ==
    EKF_step(self, self.state, self.cov, M, z, self.it,
             KalmanUpdate(self.state, self.cov, H,
                          SecondOrder(self.order, z_h, Fn_hhes(self.type, self.state), self.cov),
                          MatMul(MatMul(M, self.R), Transpose(M)), z))

(* one pass over the candidate measurements of correct_JPDA: the sums        *)
(* state_item, cov_item1, cov_item2 after the first n candidates             *)
JPDA_item(acc, prior_cov, p, S, K, incre) ==
    [ok |-> TRUE,
     state_item |-> VecAdd(acc.state_item, VecScale(p, incre)),
     cov_item1 |-> MatAdd(acc.cov_item1,
                          MatScale(p, MatSub(prior_cov, MatMul(MatMul(K, S), Transpose(K))))),
     cov_item2 |-> MatAdd(acc.cov_item2, MatScale(p, Outer(incre, incre)))]
JPDA_gain(acc, prior_cov, p, innov, S, K) ==
    JPDA_item(acc, prior_cov, p, S, K, MatVec(K, innov))
JPDA_innov(acc, prior_cov, H, p, innov, S) ==
    IF ~acc.ok \/ Singular(S) THEN [acc EXCEPT !.ok = FALSE]
    ELSE JPDA_gain(acc, prior_cov, p, innov, S,
                   MatMul(MatMul(prior_cov, Transpose(H)), Inv(S)))
RECURSIVE JPDA_items(_, _, _, _, _, _, _, _, _)
JPDA_items(prior_cov, H, z_pred, Ms, Rs, zs, probs, dim, n) ==
    IF n = 0
    THEN [ok |-> TRUE, state_item |-> ZeroVec(dim),
          cov_item1 |-> ZeroMat(dim, dim), cov_item2 |-> ZeroMat(dim, dim)]
    ELSE JPDA_innov(JPDA_items(prior_cov, H, z_pred, Ms, Rs, zs, probs, dim, n - 1),
                    prior_cov, H, probs[n], VecSub(zs[n], z_pred),
                    Symmetrize(MatAdd(MatMul(MatMul(H, prior_cov), Transpose(H)),
                                      MatMul(MatMul(Ms[n], Rs[n]), Transpose(Ms[n])))))

(* the fault "the prior covariance's residual weight 1 - sum(probs) is left out" *)
JPDA_sum_unweighted(prior_state, prior_cov, probs, items) ==
    IF ~items.ok THEN [ok |-> FALSE, state |-> None, cov |-> None]
    ELSE [ok |-> TRUE,
          state |-> VecAdd(prior_state, items.state_item),
          cov |-> Symmetrize(
              MatAdd(items.cov_item1,
                     MatSub(items.cov_item2, Outer(items.state_item, items.state_item))))]

(* state = prior_state + state_item;                                         *)
(* cov = sym((1 - sum(probs)) P + cov_item1 + (cov_item2 - outer(state_item))) *)
JPDA_sum(prior_state, prior_cov, probs, items) ==
    IF ~items.ok THEN [ok |-> FALSE, state |-> None, cov |-> None]
    ELSE [ok |-> TRUE,
          state |-> VecAdd(prior_state, items.state_item),
          cov |-> Symmetrize(
              MatAdd(MatAdd(MatScale(QSub(QInt(1), QSum(probs, Len(probs))), prior_cov),
                            items.cov_item1),
                     MatSub(items.cov_item2, Outer(items.state_item, items.state_item))))]
JPDA_update(prior_state, prior_cov, H, z_pred, Ms, Rs, zs, probs) ==
    JPDA_sum(prior_state, prior_cov, probs,
             JPDA_items(prior_cov, H, z_pred, Ms, Rs, zs, probs, Len(prior_state), Len(zs)))

RECURSIVE JPDA_iterate(_, _, _, _, _, _, _, _)
JPDA_step(self, prior_state, prior_cov, Ms, Rs, zs, probs, k, upd) ==
    IF ~upd.ok THEN Outcome(self, LinAlgError, None)
    ELSE JPDA_iterate([self EXCEPT !.state = upd.state, !.cov = upd.cov],
                      prior_state, prior_cov, Ms, Rs, zs, probs, k)
JPDA_iterate(self, prior_state, prior_cov, Ms, Rs, zs, probs, k) ==
    IF k = 0 THEN Outcome(self, "ok", <<self.state, self.cov>>)
    ELSE JPDA_step(self, prior_state, prior_cov, Ms, Rs, zs, probs, k - 1,
                   JPDA_update(prior_state, prior_cov, Fn_hjac(self.type, self.state),
                               Relinearized(self, prior_state, Fn_hjac(self.type, self.state)),
                               Ms, Rs, zs, probs))

(* "if k in kwargs: Xs = kwargs[k] else: Xs = [self._X] * z_len" *)
PerCandidate(kwargs, k, own, z_len) ==
    IF Has(kwargs, k) THEN kwargs[k] ELSE Vec(z_len, LAMBDA i : own)

CorrectedJPDA(self, H, Ms, Rs, z_h, zs, probs) ==
    JPDA_step(self, self.state, self.cov, Ms, Rs, zs, probs, self.it,
              JPDA_update(self.state, self.cov, H,
                          SecondOrder(self.order, z_h, Fn_hhes(self.type, self.state), self.cov),
                          Ms, Rs, zs, probs))

(* d = innov @ inv(S) @ innov + log(det(S)): the quadratic form and det(S),  *)
(* the logarithm left unevaluated                                            *)
Distance(innov, S) == [quad |-> Dot(innov, MatVec(Inv(S), innov)), logdet |-> Det(S)]

(* np.finfo(pdf).tiny, the smallest positive normal float64 (2^-1022): only  *)
(* that it is positive and below every other density matters here            *)
Tiny == QFrac(1, 10000)

QMax(x, y) == IF QLt(x, y) THEN y ELSE x

(* "if k in kwargs: X = kwargs[k] else: X = self._X" *)
Given(kwargs, k, own) == IF Has(kwargs, k) THEN kwargs[k] ELSE own

(* distance(): innov = z - z_pred, S = sym(H P H' + M R M'), inv(S) raising  *)
(* on a singular S                                                           *)
Measured(self, innov, S) ==
    IF Singular(S) THEN Outcome(self, LinAlgError, None)
    ELSE Outcome(self, "ok", Distance(innov, S))
Innovation(self, H, M, R, z_h, z) ==
    Measured(self,
             VecSub(z, SecondOrder(self.order, z_h, Fn_hhes(self.type, self.state), self.cov)),
             Symmetrize(MatAdd(MatMul(MatMul(H, self.cov), Transpose(H)),
                               MatMul(MatMul(M, R), Transpose(M)))))

(* the fault "likelihood returns pdf itself, without the floor" *)
Unfloored(d, pdf) == IF d.err # "ok" THEN d ELSE Outcome(d.self, "ok", pdf)

(* likelihood(): pdf is the float64 value of                                 *)
(*   1 / sqrt(det(2 pi S)) * exp(-innov @ inv(S) @ innov / 2),                *)
(* a transcendental number (0 when exp underflows) supplied to the operator; *)
(* np.sqrt of a negative determinant is nan, and max(nan, tiny) is nan       *)
Density(d, pdf) ==
    IF d.err # "ok" THEN d
    ELSE Outcome(d.self, "ok", QMax(IF QSign(d.ret.logdet) = -1 THEN QNaN ELSE pdf, Tiny))

(***************************************************************************)
(* EKFilterAN: x' = f(x, u) + L w, z = h(x) + M v                           *)
(***************************************************************************)
EKFilterAN(type, L, M, Q, R, order, it) ==
    IF order = 1 \/ order = 2
    THEN Outcome([cls |-> "EKFilterAN", type |-> type,
                  L |-> L, M |-> M, Q |-> Q, R |-> R,
                  xdim |-> TypeDim(type), zdim |-> Rows(TypeH(type)),
                  order |-> order, it |-> it,
                  state |-> KFBase.state, cov |-> KFBase.cov,
                  len |-> KFBase.len, init |-> KFBase.init], "ok", None)
    ELSE Outcome(None, InvalidOrder, None)

(* the fault "init forgets self._init = True" *)
InitWithoutFlag(self, state, cov) ==
    Outcome([self EXCEPT !.state = state, !.cov = cov], "ok", None)

EKFilterAN_init(self, state, cov) ==
    Outcome([self EXCEPT !.state = state, !.cov = cov, !.init = TRUE], "ok", None)

EKFilterAN_reset(self, state, cov) ==
    Outcome([self EXCEPT !.state = state, !.cov = cov], "ok", None)

(* predict past its check of self._init *)
EKFilterAN_predicting(self, u, kwargs) ==
    IF AssignFails(self.L, kwargs, "L") THEN Outcome(self, ValueError, None)
    ELSE IF AssignFails(self.Q, kwargs, "Q")
    THEN Outcome([self EXCEPT !.L = Assigned(self.L, kwargs, "L")], ValueError, None)
    ELSE Let([self EXCEPT !.L = Assigned(self.L, kwargs, "L"),
                          !.Q = Assigned(self.Q, kwargs, "Q")],
             LAMBDA s0 : Stored(s0, Predicted(s0, u, Fn_fjac(s0.type, s0.state, u),
                                              MatMul(MatMul(s0.L, s0.Q), Transpose(s0.L)),
                                              Fn_f(s0.type, s0.state, u))))

(* the fault "predict does not check self._init": the state property raises *)
(* AttributeError when nothing was ever stored                              *)
PredictUnchecked(self, u, kwargs) ==
    IF self.state = None \/ self.cov = None THEN Outcome(self, AttributeError, None)
    ELSE EKFilterAN_predicting(self, u, kwargs)

EKFilterAN_predict(self, u, kwargs) ==
    IF self.init = FALSE THEN Outcome(self, NotInitialized, None)
    ELSE EKFilterAN_predicting(self, u, kwargs)

EKFilterAN_correct(self, z, kwargs) ==
    IF self.init = FALSE THEN Outcome(self, NotInitialized, None)
    ELSE IF AssignFails(self.M, kwargs, "M") THEN Outcome(self, ValueError, None)
    ELSE IF AssignFails(self.R, kwargs, "R")
    THEN Outcome([self EXCEPT !.M = Assigned(self.M, kwargs, "M")], ValueError, None)
    ELSE Let([self EXCEPT !.M = Assigned(self.M, kwargs, "M"),
                          !.R = Assigned(self.R, kwargs, "R")],
             LAMBDA s0 : Corrected(s0, Fn_hjac(s0.type, s0.state), s0.M,
                                   Fn_h(s0.type, s0.state), z))

EKFilterAN_correct_JPDA(self, zs, probs, kwargs) ==
    IF self.init = FALSE THEN Outcome(self, NotInitialized, None)
    ELSE CorrectedJPDA(self, Fn_hjac(self.type, self.state),
                       PerCandidate(kwargs, "M", self.M, Len(zs)),
                       PerCandidate(kwargs, "R", self.R, Len(zs)),
                       Fn_h(self.type, self.state), zs, probs)

(* the fault "distance writes its overrides into the stored matrices", as    *)
(* correct does                                                              *)
DistanceStoringOverrides(self, z, kwargs) ==
    IF self.init = FALSE THEN Outcome(self, NotInitialized, None)
    ELSE Let([self EXCEPT !.M = Assigned(self.M, kwargs, "M"),
                          !.R = Assigned(self.R, kwargs, "R")],
             LAMBDA s0 : Innovation(s0, Fn_hjac(s0.type, s0.state), s0.M, s0.R,
                                    Fn_h(s0.type, s0.state), z))

EKFilterAN_distance(self, z, kwargs) ==
    IF self.init = FALSE THEN Outcome(self, NotInitialized, None)
    ELSE Innovation(self, Fn_hjac(self.type, self.state),
                    Given(kwargs, "M", self.M), Given(kwargs, "R", self.R),
                    Fn_h(self.type, self.state), z)

EKFilterAN_likelihood(self, z, kwargs, pdf) == Density(EKFilterAN_distance(self, z, kwargs), pdf)

(***************************************************************************)
(* EKFilterNAN: x' = f(x, u, w), z = h(x, v); the provider's f and h add    *)
(* the noise (f = F x + w, h = H x + v), so L = dF/dw and M = dh/dv are     *)
(* identity matrices.                                                       *)
(***************************************************************************)
Fn_fN(type, x, u, w) == VecAdd(MatVec(TypeF(type), x), w)
Fn_hN(type, x, v) == VecAdd(MatVec(TypeH(type), x), v)
Fn_fjacN(type, x, u, w) == <<TypeF(type), Eye(Len(w))>>
Fn_hjacN(type, x, v) == <<TypeH(type), Eye(Len(v))>>

(* the fault "the constructor stores whatever order it is given" *)
EKFilterNAN_any_order(type, Q, R, order, it) ==
    Outcome([cls |-> "EKFilterNAN", type |-> type,
             L |-> None, M |-> None, Q |-> Q, R |-> R,
             xdim |-> TypeDim(type), zdim |-> Rows(TypeH(type)),
             order |-> order, it |-> it,
             state |-> KFBase.state, cov |-> KFBase.cov,
             len |-> KFBase.len, init |-> KFBase.init], "ok", None)

EKFilterNAN(type, Q, R, order, it) ==
    IF order = 1 \/ order = 2
    THEN Outcome([cls |-> "EKFilterNAN", type |-> type,
                  L |-> None, M |-> None, Q |-> Q, R |-> R,
                  xdim |-> TypeDim(type), zdim |-> Rows(TypeH(type)),
                  order |-> order, it |-> it,
                  state |-> KFBase.state, cov |-> KFBase.cov,
                  len |-> KFBase.len, init |-> KFBase.init], "ok", None)
    ELSE Outcome(None, InvalidOrder, None)

EKFilterNAN_init(self, state, cov) ==
    Outcome([self EXCEPT !.state = state, !.cov = cov, !.init = TRUE], "ok", None)

EKFilterNAN_reset(self, state, cov) ==
    Outcome([self EXCEPT !.state = state, !.cov = cov], "ok", None)

(* F, L = fjac(x, u, 0) and H, M = hjac(x, 0) *)
PredictedN(self, u, FL, w) ==
    Stored(self, Predicted(self, u, FL[1], MatMul(MatMul(FL[2], self.Q), Transpose(FL[2])),
                           Fn_fN(self.type, self.state, u, w)))
CorrectedN(self, HM, v, z) == Corrected(self, HM[1], HM[2], Fn_hN(self.type, self.state, v), z)

EKFilterNAN_predict(self, u, kwargs) ==
    IF self.init = FALSE THEN Outcome(self, NotInitialized, None)
    ELSE IF AssignFails(self.Q, kwargs, "Q") THEN Outcome(self, ValueError, None)
    ELSE Let([self EXCEPT !.Q = Assigned(self.Q, kwargs, "Q")],
             LAMBDA s0 : PredictedN(s0, u,
                                    Fn_fjacN(s0.type, s0.state, u, ZeroVec(Rows(s0.Q))),
                                    ZeroVec(Rows(s0.Q))))

EKFilterNAN_correct(self, z, kwargs) ==
    IF self.init = FALSE THEN Outcome(self, NotInitialized, None)
    ELSE IF AssignFails(self.R, kwargs, "R") THEN Outcome(self, ValueError, None)
    ELSE Let([self EXCEPT !.R = Assigned(self.R, kwargs, "R")],
             LAMBDA s0 : CorrectedN(s0, Fn_hjacN(s0.type, s0.state, ZeroVec(Rows(s0.R))),
                                    ZeroVec(Rows(s0.R)), z))

EKFilterNAN_correct_JPDA(self, zs, probs, kwargs) ==
    IF self.init = FALSE THEN Outcome(self, NotInitialized, None)
    ELSE CorrectedJPDA(self, Fn_hjacN(self.type, self.state, ZeroVec(Rows(self.R)))[1],
                       Vec(Len(zs), LAMBDA i :
                           Fn_hjacN(self.type, self.state, ZeroVec(Rows(self.R)))[2]),
                       PerCandidate(kwargs, "R", self.R, Len(zs)),
                       Fn_hN(self.type, self.state, ZeroVec(Rows(self.R))), zs, probs)

EKFilterNAN_distance(self, z, kwargs) ==
    IF self.init = FALSE THEN Outcome(self, NotInitialized, None)
    ELSE Innovation(self, Fn_hjacN(self.type, self.state, ZeroVec(Rows(self.R)))[1],
                    Fn_hjacN(self.type, self.state, ZeroVec(Rows(self.R)))[2],
                    Given(kwargs, "R", self.R),
                    Fn_hN(self.type, self.state, ZeroVec(Rows(self.R))), z)

EKFilterNAN_likelihood(self, z, kwargs, pdf) ==
    Density(EKFilterNAN_distance(self, z, kwargs), pdf)

IsAN(self) == self.cls = "EKFilterAN"
IsIMM(self) == self.cls = "IMMFilter"

(***************************************************************************)
(* tracklib.model.model_switch: conversion of a state or a covariance       *)
(* between model types.  A call raises ValueError when a type is unknown    *)
(* or the array's shape does not fit the selection matrix.                  *)
(***************************************************************************)
uncertainty == 100

(* range(2, ca_dim, 3), as 1-based indices *)
AccSel(ca_dim) == {k \in 1..ca_dim : k % 3 = 0}
RECURSIVE Kept(_, _, _)
Kept(n, sel, k) ==
    IF k > n THEN << >>
    ELSE IF k \in sel THEN Kept(n, sel, k + 1) ELSE <<k>> \o Kept(n, sel, k + 1)
(* np.delete(np.eye(n), sel, axis=1) and np.delete(np.eye(n), sel, axis=0) *)
EyeKeepCols(n, keep) ==
    Mat(n, Len(keep), LAMBDA i, j : IF keep[j] = i THEN QInt(1) ELSE QZero)
EyeDeleteCols(n, sel) == EyeKeepCols(n, Kept(n, sel, 1))
EyeDeleteRows(n, sel) == Transpose(EyeDeleteCols(n, sel))
(* np.eye(n, m) *)
EyeRect(n, m) == Mat(n, m, LAMBDA i, j : IF i = j THEN QInt(1) ELSE QZero)

(* lg.block_diag(A, B) *)
BlockDiag(A, B) ==
    Mat(Rows(A) + Rows(B), Cols(A) + Cols(B), LAMBDA i, j :
        IF i <= Rows(A) /\ j <= Cols(A) THEN A[i][j]
        ELSE IF i > Rows(A) /\ j > Cols(A) THEN B[i - Rows(A)][j - Cols(A)]
        ELSE QZero)

(* the fault "ca to cv keeps the leading entries" instead of dropping every  *)
(* third one                                                                 *)
KeepLeading(axis) == EyeRect(2 * axis, 3 * axis)

(* the selection matrix that state_switch and cov_switch build for a pair of *)
(* types and an input of dimension dim, as a sequence of matrices applied    *)
(* left to right; empty for a pair of equal types                            *)
Slct_cv_ca(axis) == EyeDeleteCols(3 * axis, AccSel(3 * axis))
Slct_ca_cv(axis) == EyeDeleteRows(3 * axis, AccSel(3 * axis))
(* np.eye(5, 4) and np.eye(4, 5), "if axis == 3: lg.block_diag(slct, np.eye(2))" *)
Slct_cv_ct2D(axis) == IF axis = 3 THEN BlockDiag(EyeRect(5, 4), Eye(2)) ELSE EyeRect(5, 4)
Slct_ct2D_cv(axis) == IF axis = 3 THEN BlockDiag(EyeRect(4, 5), Eye(2)) ELSE EyeRect(4, 5)
Slct(dim, type_in, type_out) ==
    IF type_in = type_out THEN << >>
    ELSE IF type_in = "cv" /\ type_out = "ca" THEN <<Slct_cv_ca(dim \div 2)>>
    ELSE IF type_in = "cv" /\ type_out = "ct2D" THEN <<Slct_cv_ct2D(dim \div 2)>>
    ELSE IF type_in = "ca" /\ type_out = "cv" THEN <<Slct_ca_cv(dim \div 3)>>
    ELSE IF type_in = "ca" /\ type_out = "ct2D"
         THEN <<Slct_ca_cv(dim \div 3), Slct_cv_ct2D(dim \div 3)>>
    ELSE IF type_in = "ct2D" /\ type_out = "cv" THEN <<Slct_ct2D_cv(dim \div 2)>>
    ELSE <<Slct_ct2D_cv(dim \div 2), Slct_cv_ca(dim \div 2)>>

(* the diagonal entries cov_switch overwrites with the uncertainty *)
Padded(dim, type_in, type_out) ==
    IF type_in = type_out THEN {}
    ELSE IF type_out = "ca" THEN AccSel(3 * (dim \div 2))
    ELSE IF type_out = "ct2D" THEN {5}
    ELSE {}

RECURSIVE ShapesFit(_, _)
ShapesFit(dim, slcts) ==
    \/ Len(slcts) = 0
    \/ /\ Cols(slcts[1]) = dim
       /\ Rows(slcts[1]) > 0
       /\ ShapesFit(Rows(slcts[1]), Tail(slcts))

(* the fault "a type that is not known is not refused" *)
RaisesOnShapeOnly(dim, type_in, type_out) == ~ShapesFit(dim, Slct(dim, type_in, type_out))

switch_raises(dim, type_in, type_out) ==
    \/ type_in \notin ModelTypes
    \/ type_out \notin ModelTypes
    \/ ~ShapesFit(dim, Slct(dim, type_in, type_out))
(* what a call that raises, raises *)
switch_error(dim, type_in, type_out) ==
    IF type_in \notin ModelTypes \/ type_out \notin ModelTypes THEN UnknownType
    ELSE ShapeError

RECURSIVE ApplyVec(_, _)
ApplyVec(slcts, x) ==
    IF Len(slcts) = 0 THEN x ELSE ApplyVec(Tail(slcts), MatVec(slcts[1], x))
RECURSIVE ApplyMat(_, _)
ApplyMat(slcts, P) ==
    IF Len(slcts) = 0 THEN P
    ELSE ApplyMat(Tail(slcts), MatMul(MatMul(slcts[1], P), Transpose(slcts[1])))

state_switch(state, type_in, type_out) ==
    ApplyVec(Slct(Len(state), type_in, type_out), state)

WithUncertainty(ctmp, sel) ==
    Mat(Rows(ctmp), Cols(ctmp), LAMBDA i, j :
        IF i = j /\ i \in sel THEN QInt(uncertainty) ELSE ctmp[i][j])
cov_switch(cov, type_in, type_out) ==
    WithUncertainty(ApplyMat(Slct(Len(cov), type_in, type_out), cov),
                    Padded(Len(cov), type_in, type_out))

(***************************************************************************)
(* IMMFilter                                                                *)
(***************************************************************************)
IMMFilter ==
    [cls |-> "IMMFilter", models |-> << >>, model_types |-> << >>,
     probs |-> None, trans_mat |-> None, models_n |-> 0,
     state |-> KFBase.state, cov |-> KFBase.cov,
     len |-> KFBase.len, init |-> KFBase.init]

(* a call of a method of a filter object goes to the method of its class *)
RECURSIVE Filter_init(_, _, _)
RECURSIVE Filter_reset(_, _, _)
RECURSIVE Filter_predict(_, _, _)
RECURSIVE Filter_correct(_, _, _, _)
RECURSIVE Filter_distance(_, _, _)
RECURSIVE Filter_likelihood(_, _, _, _)

(* the self-transition probability of the default transition matrix *)
trans_prob == QFrac(999, 1000)

(* np.zeros((n, n)) + (1 - trans_prob) / 2, then the diagonal set to trans_prob *)
DefaultTransMat(n) ==
    Mat(n, n, LAMBDA i, j :
        IF i = j THEN trans_prob ELSE QMul(QSub(QInt(1), trans_prob), QFrac(1, 2)))

(* probs = None and trans_mat = None are the omitted arguments *)
IMMFilter_add_models(self, models, model_types, probs, trans_mat) ==
    Outcome([self EXCEPT
               !.models_n = Len(models),
               !.models = self.models \o models,
               !.model_types = self.model_types \o model_types,
               !.probs = IF probs = None
                         THEN Vec(Len(models), LAMBDA i : QFrac(1, Len(models)))
                         ELSE probs,
               !.trans_mat = IF trans_mat = None THEN DefaultTransMat(Len(models))
                             ELSE trans_mat],
            "ok", None)

(* the state / cov property of KFBase raises AttributeError on None *)
Unset(models, n) == \E i \in 1..n : models[i].state = None \/ models[i].cov = None

(* [switch_fcn(state_org[j], types[j], to) for j] and the same of cov_org *)
SwitchedStates(models, types, to, n) ==
    Vec(n, LAMBDA j : state_switch(models[j].state, types[j], to))
SwitchedCovs(models, types, to, n) ==
    Vec(n, LAMBDA j : cov_switch(models[j].cov, types[j], to))

(* "x = 0; for i: x += w[i] * xs[i]", the first k terms *)
RECURSIVE WeightedSum(_, _, _)
WeightedSum(w, xs, k) ==
    IF k = 0 THEN ZeroVec(Len(xs[1]))
    ELSE VecAdd(WeightedSum(w, xs, k - 1), VecScale(w[k], xs[k]))

(* "P = 0; for i: err = xs[i] - x; P += w[i] * (ps[i] + outer(err, err))",    *)
(* the first k terms                                                         *)
SpreadTerm(p, err) == MatAdd(p, Outer(err, err))
RECURSIVE Spread(_, _, _, _, _)
Spread(w, xs, ps, x, k) ==
    IF k = 0 THEN ZeroMat(Len(x), Len(x))
    ELSE MatAdd(Spread(w, xs, ps, x, k - 1),
                MatScale(w[k], SpreadTerm(ps[k], VecSub(xs[k], x))))

(* the fault "the spread of the means, outer(err, err), is left out" *)
RECURSIVE WeightedCovs(_, _, _)
WeightedCovs(w, ps, k) ==
    IF k = 0 THEN ZeroMat(Rows(ps[1]), Rows(ps[1]))
    ELSE MatAdd(WeightedCovs(w, ps, k - 1), MatScale(w[k], ps[k]))
FusedWithoutSpread(self, xs, ps, xtmp) ==
    Outcome([self EXCEPT !.state = xtmp,
                         !.cov = Symmetrize(WeightedCovs(self.probs, ps, self.models_n))],
            "ok", None)

(* __update: the fused state and covariance, in the type of model 0 *)
Fused(self, xs, ps, xtmp) ==
    Outcome([self EXCEPT !.state = xtmp,
                         !.cov = Symmetrize(Spread(self.probs, xs, ps, xtmp, self.models_n))],
            "ok", None)
FusedOf(self, xs, ps) == Fused(self, xs, ps, WeightedSum(self.probs, xs, self.models_n))
(* the error of the first conversion, in the order of the loops, that raises *)
First(S) == CHOOSE k \in S : \A m \in S : k <= m
RaisedAt(self, j, i) ==
    switch_error(Len(self.models[j].state), self.model_types[j], self.model_types[i])
RaisesAt(self, j, i) ==
    switch_raises(Len(self.models[j].state), self.model_types[j], self.model_types[i])
(* the k-th conversion of predict's loops: to the type of model (k - 1) div n, *)
(* of the state of model (k - 1) mod n                                        *)
RaisedFirst(self, n) ==
    Let(First({k \in 1..(n * n) : RaisesAt(self, ((k - 1) % n) + 1, ((k - 1) \div n) + 1)}),
        LAMBDA k : RaisedAt(self, ((k - 1) % n) + 1, ((k - 1) \div n) + 1))
IMMFilter_update(self) ==
    IF Unset(self.models, self.models_n) THEN Outcome(self, AttributeError, None)
    ELSE IF \E i \in 1..self.models_n :
                switch_raises(Len(self.models[i].state), self.model_types[i],
                              self.model_types[1])
    THEN Outcome(self,
                 RaisedAt(self, First({i \in 1..self.models_n :
                     switch_raises(Len(self.models[i].state), self.model_types[i],
                                   self.model_types[1])}), 1),
                 None)
    ELSE FusedOf(self,
                 SwitchedStates(self.models, self.model_types, self.model_types[1],
                                self.models_n),
                 SwitchedCovs(self.models, self.model_types, self.model_types[1],
                              self.models_n))

(* the loop of init over the models, the first k done *)
IMM_init_model(self, k, prev, state, cov) ==
    IF prev.err # "ok" THEN prev
    ELSE IF switch_raises(Len(state), self.model_types[1], self.model_types[k])
    THEN Outcome(prev.self,
                 switch_error(Len(state), self.model_types[1], self.model_types[k]), None)
    ELSE Outcome([prev.self EXCEPT !.models[k] =
                     Filter_init(prev.self.models[k],
                                 state_switch(state, self.model_types[1], self.model_types[k]),
                                 cov_switch(cov, self.model_types[1], self.model_types[k])).self],
                 "ok", None)
RECURSIVE IMM_init_models(_, _, _, _)
IMM_init_models(self, state, cov, k) ==
    IF k = 0 THEN Outcome(self, "ok", None)
    ELSE IMM_init_model(self, k, IMM_init_models(self, state, cov, k - 1), state, cov)

IMM_inited(done, state, cov) ==
    IF done.err # "ok" THEN done
    ELSE Outcome([done.self EXCEPT !.state = state, !.cov = cov, !.init = TRUE], "ok", None)
IMMFilter_init(self, state, cov) ==
    IF self.models_n = 0 THEN Outcome(self, NoModels, None)
    ELSE IMM_inited(IMM_init_models(self, state, cov, self.models_n), state, cov)

IMM_reset_model(self, k, prev, state, cov) ==
    IF prev.err # "ok" THEN prev
    ELSE IF switch_raises(Len(state), self.model_types[1], self.model_types[k])
    THEN Outcome(prev.self,
                 switch_error(Len(state), self.model_types[1], self.model_types[k]), None)
    ELSE Outcome([prev.self EXCEPT !.models[k] =
                     Filter_reset(prev.self.models[k],
                                  state_switch(state, self.model_types[1], self.model_types[k]),
                                  cov_switch(cov, self.model_types[1], self.model_types[k])).self],
                 "ok", None)
RECURSIVE IMM_reset_models(_, _, _, _)
IMM_reset_models(self, state, cov, k) ==
    IF k = 0 THEN Outcome(self, "ok", None)
    ELSE IMM_reset_model(self, k, IMM_reset_models(self, state, cov, k - 1), state, cov)

IMMFilter_reset(self, state, cov) ==
    IF self.models_n = 0 THEN Outcome(self, AttributeError, None)
    ELSE IMM_reset_models(self, state, cov, self.models_n)

(* mixing_probs = trans_mat * probs: column j scaled by probs[j] *)
MixingProbs(trans_mat, probs) ==
    Mat(Rows(trans_mat), Cols(trans_mat), LAMBDA i, j : QMul(trans_mat[i][j], probs[j]))

(* np.sum(mixing_probs, axis=1) *)
RowSums(A) == Vec(Rows(A), LAMBDA i : QSum(A[i], Cols(A)))

(* mixing_probs /= probs.reshape(-1, 1) *)
NormalizeRows(A, sums) == Mat(Rows(A), Cols(A), LAMBDA i, j : QDiv(A[i][j], sums[i]))

(* the mixed state and covariance of destination model i, from the states   *)
(* and covariances all models held at entry, and model i reset to them      *)
MixedCov(w, xs, ps, xi) == Symmetrize(Spread(w, xs, ps, xi, Len(xs)))
MixedPair(model, w, xs, ps, xi) == Filter_reset(model, xi, MixedCov(w, xs, ps, xi)).self
MixedState(model, w, xs, ps) == MixedPair(model, w, xs, ps, WeightedSum(w, xs, Len(xs)))
(* the fault "the mixing reads the models as they are now": model k is mixed *)
(* from the models 1..k-1 already reset, not from those held at entry        *)
RECURSIVE MixedUpTo(_, _, _)
MixedUpTo(self, mixing_probs, k) ==
    IF k = 0 THEN self
    ELSE Let(MixedUpTo(self, mixing_probs, k - 1), LAMBDA s :
             [s EXCEPT !.models[k] =
                 MixedState(s.models[k], mixing_probs[k],
                            SwitchedStates(s.models, s.model_types, s.model_types[k], s.models_n),
                            SwitchedCovs(s.models, s.model_types, s.model_types[k], s.models_n))])
MixedInPlace(self, mixing_probs) == MixedUpTo(self, mixing_probs, self.models_n)

Mixed(self, mixing_probs) ==
    [self EXCEPT !.models = Vec(Len(self.models), LAMBDA i :
        IF i <= self.models_n
        THEN MixedState(self.models[i], mixing_probs[i],
                        SwitchedStates(self.models, self.model_types, self.model_types[i],
                                       self.models_n),
                        SwitchedCovs(self.models, self.model_types, self.model_types[i],
                                     self.models_n))
        ELSE self.models[i])]

(* the loop "self._models[i].predict(u, **kwargs)", the first k done *)
IMM_predicted(prev, k, m) == Outcome([prev.self EXCEPT !.models[k] = m.self], m.err, None)
IMM_predict_model(prev, k, u, kwargs) ==
    IF prev.err # "ok" THEN prev
    ELSE IMM_predicted(prev, k, Filter_predict(prev.self.models[k], u, kwargs))
RECURSIVE IMM_predict_models(_, _, _, _)
IMM_predict_models(self, u, kwargs, k) ==
    IF k = 0 THEN Outcome(self, "ok", None)
    ELSE IMM_predict_model(IMM_predict_models(self, u, kwargs, k - 1), k, u, kwargs)

IMM_updated(done) == IF done.err # "ok" THEN done ELSE IMMFilter_update(done.self)
IMM_mixed(s1, mixing0, u, kwargs) ==
    IF Unset(s1.models, s1.models_n) THEN Outcome(s1, AttributeError, None)
    ELSE IF \E i, j \in 1..s1.models_n :
                switch_raises(Len(s1.models[j].state), s1.model_types[j], s1.model_types[i])
    THEN Outcome(s1, RaisedFirst(s1, s1.models_n), None)
    ELSE IMM_updated(IMM_predict_models(Mixed(s1, NormalizeRows(mixing0, s1.probs)),
                                        u, kwargs, s1.models_n))
IMM_mixing(self, mixing0, u, kwargs) ==
    IMM_mixed([self EXCEPT !.probs = RowSums(mixing0)], mixing0, u, kwargs)
IMMFilter_predict(self, u, kwargs) ==
    IF self.init = FALSE THEN Outcome(self, NotInitialized, None)
    ELSE IMM_mixing(self, MixingProbs(self.trans_mat, self.probs), u, kwargs)

(* the loop of correct: pdf[i] = likelihood(z) of model i, then its correct(z); *)
(* pdfs[i] is the float64 density of model i                                   *)
IMM_corrected(prev, k, lk, m) ==
    IF lk.err # "ok" THEN Outcome(prev.self, lk.err, None)
    ELSE Outcome([prev.self EXCEPT !.models[k] = m.self], m.err, Append(prev.ret, lk.ret))
IMM_correct_model(prev, k, z, kwargs, pdfs) ==
    IF prev.err # "ok" THEN prev
    ELSE IMM_corrected(prev, k,
                       Filter_likelihood(prev.self.models[k], z, kwargs, <<pdfs[k]>>),
                       Filter_correct(prev.self.models[k], z, kwargs, << >>))
RECURSIVE IMM_correct_models(_, _, _, _, _)
IMM_correct_models(self, z, kwargs, pdfs, k) ==
    IF k = 0 THEN Outcome(self, "ok", << >>)
    ELSE IMM_correct_model(IMM_correct_models(self, z, kwargs, pdfs, k - 1),
                           k, z, kwargs, pdfs)

(* "probs *= pdf" then "probs /= np.sum(probs)" *)
Scaled(v, total) == Vec(Len(v), LAMBDA i : QDiv(v[i], total))
Normalized(v) == Scaled(v, QSum(v, Len(v)))
(* the fault "probs /= np.sum(probs) is missing" *)
Unnormalized(probs, pdf) == Vec(Len(probs), LAMBDA i : QMul(probs[i], pdf[i]))
Posterior(probs, pdf) == Normalized(Vec(Len(probs), LAMBDA i : QMul(probs[i], pdf[i])))
IMM_posterior(done) ==
    IF done.err # "ok" THEN Outcome(done.self, done.err, None)
    ELSE IMMFilter_update([done.self EXCEPT !.probs = Posterior(done.self.probs, done.ret)])
IMMFilter_correct(self, z, kwargs, pdfs) ==
    IF self.init = FALSE THEN Outcome(self, NotInitialized, None)
    ELSE IMM_posterior(IMM_correct_models(self, z, kwargs, pdfs, self.models_n))

(* d = sum of probs[i] * distance_i: returned as its terms *)
IMM_distance_term(self, k, prev, d) ==
    IF prev.err # "ok" THEN prev
    ELSE IF d.err # "ok" THEN Outcome(self, d.err, None)
    ELSE Outcome(self, "ok", Append(prev.ret, [p |-> self.probs[k], d |-> d.ret]))
RECURSIVE IMM_distance(_, _, _, _)
IMM_distance(self, z, kwargs, k) ==
    IF k = 0 THEN Outcome(self, "ok", << >>)
    ELSE IMM_distance_term(self, k, IMM_distance(self, z, kwargs, k - 1),
                           Filter_distance(self.models[k], z, kwargs))

IMMFilter_distance(self, z, kwargs) ==
    IF self.init = FALSE THEN Outcome(self, NotInitialized, None)
    ELSE IMM_distance(self, z, kwargs, self.models_n)

IMM_likelihood_term(self, k, prev, lk) ==
    IF prev.err # "ok" THEN prev
    ELSE IF lk.err # "ok" THEN Outcome(self, lk.err, None)
    ELSE Outcome(self, "ok", QAdd(prev.ret, QMul(self.probs[k], lk.ret)))
RECURSIVE IMM_likelihood(_, _, _, _, _)
IMM_likelihood(self, z, kwargs, pdfs, k) ==
    IF k = 0 THEN Outcome(self, "ok", QZero)
    ELSE IMM_likelihood_term(self, k, IMM_likelihood(self, z, kwargs, pdfs, k - 1),
                             Filter_likelihood(self.models[k], z, kwargs, <<pdfs[k]>>))

IMMFilter_likelihood(self, z, kwargs, pdfs) ==
    IF self.init = FALSE THEN Outcome(self, NotInitialized, None)
    ELSE IMM_likelihood(self, z, kwargs, pdfs, self.models_n)

Filter_init(self, state, cov) ==
    IF IsIMM(self) THEN IMMFilter_init(self, state, cov)
    ELSE IF IsAN(self) THEN EKFilterAN_init(self, state, cov)
    ELSE EKFilterNAN_init(self, state, cov)
Filter_reset(self, state, cov) ==
    IF IsIMM(self) THEN IMMFilter_reset(self, state, cov)
    ELSE IF IsAN(self) THEN EKFilterAN_reset(self, state, cov)
    ELSE EKFilterNAN_reset(self, state, cov)
Filter_predict(self, u, kwargs) ==
    IF IsIMM(self) THEN IMMFilter_predict(self, u, kwargs)
    ELSE IF IsAN(self) THEN EKFilterAN_predict(self, u, kwargs)
    ELSE EKFilterNAN_predict(self, u, kwargs)
Filter_correct(self, z, kwargs, pdfs) ==
    IF IsIMM(self) THEN IMMFilter_correct(self, z, kwargs, pdfs)
    ELSE IF IsAN(self) THEN EKFilterAN_correct(self, z, kwargs)
    ELSE EKFilterNAN_correct(self, z, kwargs)
Filter_distance(self, z, kwargs) ==
    IF IsIMM(self) THEN IMMFilter_distance(self, z, kwargs)
    ELSE IF IsAN(self) THEN EKFilterAN_distance(self, z, kwargs)
    ELSE EKFilterNAN_distance(self, z, kwargs)
Filter_likelihood(self, z, kwargs, pdfs) ==
    IF IsIMM(self) THEN IMMFilter_likelihood(self, z, kwargs, pdfs)
    ELSE IF IsAN(self) THEN EKFilterAN_likelihood(self, z, kwargs, pdfs[1])
    ELSE EKFilterNAN_likelihood(self, z, kwargs, pdfs[1])
Filter_correct_JPDA(self, zs, probs, kwargs) ==
    IF IsAN(self) THEN EKFilterAN_correct_JPDA(self, zs, probs, kwargs)
    ELSE EKFilterNAN_correct_JPDA(self, zs, probs, kwargs)

(***************************************************************************)
(* Bounds and the inputs the calls are drawn from.                          *)
(***************************************************************************)
(* calls that change the filter, over its whole life *)
MaxCalls == 3
(* filter instances registered in one combiner *)
MaxModels == 2

Q0 == ZeroMat(2, 2)
Q1 == Eye(2)
R1 == Eye(1)
R2 == MatOfInts(<< <<2>> >>)
(* measurement noise variance 0.04 *)
R004 == << <<QFrac(1, 25)>> >>

cvAN == EKFilterAN("cv", Eye(2), Eye(1), Q0, R1, 1, 0).self
cvNAN == EKFilterNAN("cv", Q1, R2, 2, 1).self
caAN == EKFilterAN("ca", Eye(3), Eye(1), ZeroMat(3, 3), R1, 1, 0).self
(* the linear reference filter: F = [[1, 1], [0, 1]], H = [1, 0], Q = 0, R = [0.04] *)
linAN == EKFilterAN("cv", Eye(2), Eye(1), Q0, R004, 1, 0).self
(* a first-order filter of the non-additive class that does not iterate *)
linNAN == EKFilterNAN("cv", Q0, R004, 1, 0).self

(* the arguments of init and reset: a symmetric covariance and one that is not *)
InitInputs ==
    {[state |-> VecOfInts(<<0, 1>>), cov |-> Eye(2)],
     [state |-> VecOfInts(<<2, -1>>), cov |-> MatOfInts(<< <<2, 1>>, <<0, 1>> >>)]}
PredictKwargs == {NoKw, [k \in {"Q"} |-> Q1]}
(* a measurement with or without a per-call override *)
CorrectInputs ==
    {[z |-> VecOfInts(<<1>>), kwargs |-> NoKw],
     [z |-> VecOfInts(<<3>>), kwargs |-> [k \in {"R"} |-> R2]],
     [z |-> <<QFrac(6, 5)>>, kwargs |-> NoKw]}
(* candidate measurements with their association probabilities *)
JPDAInputs ==
    {[zs |-> <<VecOfInts(<<1>>)>>, probs |-> <<QInt(1)>>],
     [zs |-> <<VecOfInts(<<1>>), VecOfInts(<<3>>)>>,
      probs |-> <<QFrac(2, 5), QFrac(2, 5)>>],
     [zs |-> << >>, probs |-> << >>],
     [zs |-> <<VecOfInts(<<3>>)>>, probs |-> <<QZero>>]}
(* float64 values of the Gaussian densities of n models: 0 is an underflow *)
Pdfs(n) ==
    {[i \in 1..n |-> QZero], [i \in 1..n |-> IF i = 1 THEN QFrac(1, 2) ELSE QZero]}
(* the arguments of add_models *)
AddInputs ==
    {[models |-> <<cvAN>>, model_types |-> <<"cv">>, probs |-> None, trans_mat |-> None],
     [models |-> <<cvAN, cvNAN>>, model_types |-> <<"cv", "cv">>,
      probs |-> None, trans_mat |-> None],
     [models |-> <<cvAN, caAN>>, model_types |-> <<"cv", "ca">>,
      probs |-> <<QFrac(3, 4), QFrac(1, 4)>>,
      trans_mat |-> << <<QFrac(3, 4), QFrac(1, 4)>>, <<QFrac(1, 2), QFrac(1, 2)>> >>]}
(* what a caller writes into an array it holds *)
Scribble == QInt(-7)

(***************************************************************************)
(* State.                                                                   *)
(*   flt     the filter object the caller drives                            *)
(*   twin    for a combiner: a filter built like the first model registered, *)
(*           given the same init / reset / predict / correct calls          *)
(*   aliased the state and covariance arrays the caller holds are the       *)
(*           filter's own _state and _cov objects                           *)
(*   call    the last call and its two arguments: state and cov of init and *)
(*           reset and, in their places, u and the overrides of predict, z  *)
(*           and the overrides of correct, zs and probs of correct_JPDA     *)
(*   raised  the exception the last call raised, "ok" for none              *)
(*   ret     the value the last call returned                               *)
(*   calls   calls so far that changed the filter                           *)
(***************************************************************************)
VARIABLES flt, twin, aliased, call, raised, ret, calls
vars == <<flt, twin, aliased, call, raised, ret, calls>>

Call(op, state, cov) == [op |-> op, state |-> state, cov |-> cov]

Init ==
    /\ flt \in {cvAN, cvNAN, linAN, linNAN, IMMFilter}
    /\ twin = None
    /\ aliased = FALSE
    /\ call = Call("new", None, None)
    /\ raised = "ok"
    /\ ret = None
    /\ calls = 0


(* A query ends a path: it hands the filter back as it found it, so what can *)
(* follow the query follows the state the query was made in.                *)
Queries == {"distance", "likelihood"}
Settled == call.op \notin Queries
MayCall == Settled /\ calls < MaxCalls

(* the twin after the call Op, made on it when the combiner gets it *)
Twin(Op(_)) == IF IsIMM(flt) /\ twin # None THEN Op(twin).self ELSE twin

(* What a call with outcome o leaves behind.  held: "own" when the filter    *)
(* stores arrays of its own, "handed" when the call returns the filter's     *)
(* arrays themselves (EKFilterAN / EKFilterNAN return self._state,           *)
(* self._cov; IMMFilter.predict and correct return nothing), "same" when it  *)
(* touches neither.                                                          *)
Called(op, state, cov, o, tw, held, counted) ==
    /\ flt' = o.self
    /\ twin' = tw
    /\ aliased' = IF o.err # "ok" \/ held = "same" THEN aliased
                  ELSE IF held = "own" THEN FALSE
                  ELSE IF IsIMM(flt) THEN aliased ELSE TRUE
    /\ call' = Call(op, state, cov)
    /\ raised' = o.err
    /\ ret' = o.ret
    /\ calls' = IF counted /\ o.self # flt THEN calls + 1 ELSE calls

DoInit ==
    /\ MayCall
    /\ \E in \in InitInputs :
        Called("init", in.state, in.cov, Filter_init(flt, in.state, in.cov),
               Twin(LAMBDA t : Filter_init(t, in.state, in.cov)), "own", TRUE)

DoReset ==
    /\ MayCall
    /\ \E in \in InitInputs :
        Called("reset", in.state, in.cov, Filter_reset(flt, in.state, in.cov),
               Twin(LAMBDA t : Filter_reset(t, in.state, in.cov)), "own", TRUE)

DoPredict ==
    /\ MayCall
    /\ \E kwargs \in PredictKwargs :
        Called("predict", None, kwargs, Filter_predict(flt, None, kwargs),
               Twin(LAMBDA t : Filter_predict(t, None, kwargs)), "handed", TRUE)

DoCorrect ==
    /\ MayCall
    /\ \E in \in CorrectInputs,
          pdfs \in Pdfs(IF IsIMM(flt) /\ flt.init THEN flt.models_n ELSE 0) :
        Called("correct", in.z, in.kwargs, Filter_correct(flt, in.z, in.kwargs, pdfs),
               Twin(LAMBDA t : Filter_correct(t, in.z, in.kwargs, << >>)), "handed", TRUE)

DoCorrectJPDA ==
    /\ ~IsIMM(flt)
    /\ MayCall
    /\ \E in \in JPDAInputs :
        Called("correct_JPDA", in.zs, in.probs, Filter_correct_JPDA(flt, in.zs, in.probs, NoKw),
               twin, "handed", TRUE)

DoDistance ==
    /\ Settled
    /\ \E in \in CorrectInputs :
        Called("distance", None, None, Filter_distance(flt, in.z, in.kwargs),
               twin, "same", TRUE)

DoLikelihood ==
    /\ Settled
    /\ \E in \in CorrectInputs,
       pdfs \in Pdfs(IF ~flt.init THEN 0 ELSE IF IsIMM(flt) THEN flt.models_n ELSE 1) :
        Called("likelihood", None, None, Filter_likelihood(flt, in.z, in.kwargs, pdfs),
               twin, "same", TRUE)

DoAddModels ==
    /\ Settled
    /\ IsIMM(flt)
    /\ \E in \in AddInputs :
        /\ Len(flt.models) + Len(in.models) <= MaxModels
        /\ Called("add_models", None, None,
                  IMMFilter_add_models(flt, in.models, in.model_types, in.probs, in.trans_mat),
                  IF twin = None THEN in.models[1] ELSE twin, "same", FALSE)

(* the caller overwrites, in place, the arrays it holds *)
Scribbled(self) ==
    [self EXCEPT !.state = Vec(Len(self.state), LAMBDA i : Scribble),
                 !.cov = Mat(Rows(self.cov), Cols(self.cov), LAMBDA i, j : Scribble)]

DoMutate ==
    /\ MayCall
    /\ call.op \in {"init", "reset", "predict", "correct", "correct_JPDA"}
    /\ raised = "ok"
    /\ flt' = IF aliased THEN Scribbled(flt) ELSE flt
    /\ call' = Call("mutate", None, None)
    /\ calls' = IF aliased THEN calls + 1 ELSE calls
    /\ UNCHANGED <<twin, aliased, raised, ret>>

Next ==
    \/ DoInit
    \/ DoReset
    \/ DoPredict
    \/ DoCorrect
    \/ DoCorrectJPDA
    \/ DoDistance
    \/ DoLikelihood
    \/ DoAddModels
    \/ DoMutate

Spec == Init /\ [][Next]_vars

(***************************************************************************)
(* The library called directly: the constructors of the two EKF classes,    *)
(* state_switch and cov_switch on states and covariances of one to three    *)
(* axes, and a combiner that is built and initialized.  The variables are   *)
(* those above: call is the call made (its operation and arguments), flt    *)
(* the object a constructor or init produced (None without one), ret the    *)
(* value returned, raised the exception, calls the number of calls made.    *)
(***************************************************************************)
(* the types model.py knows and one it does not *)
Tags == ModelTypes \cup {"xx"}
Axes == {1, 2, 3}
Orders == {0, 1, 2, 3}
(* the length of a state of a type: position and velocity (and acceleration) *)
(* per axis; for ct2D two axes of position and velocity, the turn rate, and  *)
(* a third axis if there is one                                              *)
StateDim(type, axes) ==
    IF type = "cv" THEN 2 * axes ELSE IF type = "ca" THEN 3 * axes ELSE 2 * axes + 1
SwitchArgs ==
    {a \in [type : ModelTypes, axes : Axes, values : {1, 2}] : a.type = "ct2D" => a.axes > 1}
StateArg(a) ==
    Vec(StateDim(a.type, a.axes), LAMBDA i : IF a.values = 1 THEN QInt(i) ELSE QFrac(0 - i, 2))
CovArg(a) ==
    Mat(StateDim(a.type, a.axes), StateDim(a.type, a.axes), LAMBDA i, j :
        IF i = j THEN QInt(10 * a.values + i) ELSE QFrac(i * j, 4 * a.values))
(* the arguments of an init on a filter of xdim = 2: a state of three entries, *)
(* a covariance of three rows and columns, a covariance that is not square,   *)
(* and a pair that fits                                                       *)
ShapedInputs ==
    {[state |-> VecOfInts(<<0, 1, 2>>), cov |-> Eye(2)],
     [state |-> VecOfInts(<<0, 1>>), cov |-> Eye(3)],
     [state |-> VecOfInts(<<0, 1>>), cov |-> ZeroMat(2, 3)],
     [state |-> VecOfInts(<<0, 1>>), cov |-> Eye(2)]}
(* the probs and trans_mat arguments of add_models for two models: omitted,  *)
(* a start that is certain of the second model under a matrix that never     *)
(* switches, and a start and a matrix without zeros                          *)
MixArgs ==
    {[probs |-> None, trans_mat |-> None],
     [probs |-> <<QZero, QInt(1)>>, trans_mat |-> Eye(2)],
     [probs |-> <<QFrac(1, 4), QFrac(3, 4)>>,
      trans_mat |-> << <<QFrac(9, 10), QFrac(1, 10)>>, <<QFrac(1, 5), QFrac(4, 5)>> >>]}
(* the type tags of a combiner of two models *)
TagPairs == {<<"cv", "cv">>, <<"cv", "ca">>, <<"cv", "ct2D">>, <<"cv", "xx">>, <<"xx", "cv">>}

LibInit ==
    /\ flt = None
    /\ twin = None
    /\ aliased = FALSE
    /\ call = [op |-> "none"]
    /\ raised = "ok"
    /\ ret = None
    /\ calls = 0

(* a call of state_switch or cov_switch: the value returned or the error *)
Switched(fcn, x, type_in, type_out) ==
    IF switch_raises(Len(x), type_in, type_out)
    THEN Outcome(None, switch_error(Len(x), type_in, type_out), None)
    ELSE Outcome(None, "ok", IF fcn = "state_switch" THEN state_switch(x, type_in, type_out)
                             ELSE cov_switch(x, type_in, type_out))

LibCalled(c, o) ==
    /\ flt' = o.self
    /\ call' = c
    /\ raised' = o.err
    /\ ret' = o.ret
    /\ calls' = calls + 1
    /\ UNCHANGED <<twin, aliased>>

(* from is the value the chain of conversions started from *)
SwitchCall(fcn, x, type_in, type_out, axes, from) ==
    LibCalled([op |-> fcn, x |-> x, type_in |-> type_in, type_out |-> type_out,
               axes |-> axes, from |-> from],
              Switched(fcn, x, type_in, type_out))

DoNew ==
    /\ calls = 0
    /\ \E cls \in {"EKFilterAN", "EKFilterNAN"}, order \in Orders :
        LibCalled([op |-> "new", cls |-> cls, order |-> order],
                  IF cls = "EKFilterAN" THEN EKFilterAN("cv", Eye(2), Eye(1), Q0, R1, order, 0)
                  ELSE EKFilterNAN("cv", Q1, R2, order, 0))

DoStateSwitch ==
    /\ calls = 0
    /\ \E a \in SwitchArgs, unknown_in \in BOOLEAN, type_out \in Tags :
        SwitchCall("state_switch", StateArg(a), IF unknown_in THEN "xx" ELSE a.type,
                   type_out, a.axes, StateArg(a))

DoCovSwitch ==
    /\ calls = 0
    /\ \E a \in SwitchArgs, unknown_in \in BOOLEAN, type_out \in Tags :
        SwitchCall("cov_switch", CovArg(a), IF unknown_in THEN "xx" ELSE a.type,
                   type_out, a.axes, CovArg(a))

(* the value a conversion returned, converted back *)
DoStateSwitchBack ==
    /\ calls = 1 /\ call.op = "state_switch" /\ raised = "ok"
    /\ SwitchCall("state_switch", ret, call.type_out, call.type_in, call.axes, call.from)

DoCovSwitchBack ==
    /\ calls = 1 /\ call.op = "cov_switch" /\ raised = "ok"
    /\ SwitchCall("cov_switch", ret, call.type_out, call.type_in, call.axes, call.from)

(* init on the filter a constructor has just returned *)
DoInitShaped ==
    /\ calls = 1 /\ call.op = "new" /\ raised = "ok"
    /\ \E in \in ShapedInputs :
        LibCalled([op |-> "init", state |-> in.state, cov |-> in.cov],
                  Filter_init(flt, in.state, in.cov))

(* IMMFilter(), add_models of two one-axis filters under the tags, init *)
DoCombinerInit ==
    /\ calls = 0
    /\ \E types \in TagPairs, in \in InitInputs, mix \in MixArgs :
        LibCalled([op |-> "IMMFilter.init", model_types |-> types],
                  IMMFilter_init(
                      IMMFilter_add_models(IMMFilter,
                                           <<cvAN, IF types[2] = "ca" THEN caAN ELSE cvNAN>>,
                                           types, mix.probs, mix.trans_mat).self,
                      in.state, in.cov))

(* predict on the combiner just initialized *)
DoCombinerPredict ==
    /\ calls = 1 /\ call.op = "IMMFilter.init" /\ raised = "ok"
    /\ LibCalled([op |-> "IMMFilter.predict"], IMMFilter_predict(flt, None, NoKw))

LibNext ==
    \/ DoNew
    \/ DoStateSwitch
    \/ DoCovSwitch
    \/ DoStateSwitchBack
    \/ DoCovSwitchBack
    \/ DoCombinerInit
    \/ DoInitShaped
    \/ DoCombinerPredict

LibSpec == LibInit /\ [][LibNext]_vars

(***************************************************************************)
(* Properties.                                                              *)
(***************************************************************************)
QAbs(x) == IF QSign(x) = -1 THEN QNeg(x) ELSE x
(* equal to 1 within 1e-9 *)
Tolerance == QFrac(1, 1000000000)
NearOne(x) == ~IsNaN(x) /\ QLe(QAbs(QSub(x, QInt(1))), Tolerance)
NonNegative(x) == ~IsNaN(x) /\ QSign(x) >= 0
Symmetric(A) ==
    /\ Rows(A) = Cols(A)
    /\ \A i, j \in 1..Rows(A) : ~IsNaN(A[i][j]) /\ A[i][j] = A[j][i]
Distribution(p) ==
    /\ \A i \in 1..Len(p) : NonNegative(p[i])
    /\ NearOne(QSum(p, Len(p)))
RowStochastic(T) == \A i \in 1..Rows(T) : Distribution(T[i])

GuardedOps == {"predict", "correct", "correct_JPDA", "distance", "likelihood"}

(* C1: predict, correct, correct_JPDA, distance and likelihood, called on a  *)
(* filter on which init never succeeded, fail with the not-initialized error *)
(* and leave the whole filter (state, covariance, step counter, model        *)
(* probabilities) as it was.                                                 *)
C1_NotInitialized ==
    [][(~flt.init /\ call'.op \in GuardedOps)
          => (raised' = NotInitialized /\ flt' = flt)]_vars
(* a combiner with two models registered, never initialized, refused a correct *)
C1_Witness ==
    /\ IsIMM(flt) /\ flt.models_n = 2 /\ ~flt.init
    /\ call.op = "correct" /\ raised = NotInitialized

(* C2: after every predict and every correct of the combiner the model       *)
(* probabilities are non-negative and sum to 1.                              *)
C2_ProbsNormalized ==
    (IsIMM(flt) /\ call.op \in {"predict", "correct"} /\ raised = "ok")
        => Distribution(flt.probs)

(* C3: a combiner with one registered model (default probabilities, default  *)
(* transition matrix) exposes after init, and after each predict and correct *)
(* that starts from agreement, the state and covariance of that model run    *)
(* directly through the same calls.                                          *)
SingleModel == IsIMM(flt) /\ Len(flt.models) = 1 /\ flt.models_n = 1 /\ twin # None
C3_SingleModelReduction ==
    [][/\ (SingleModel /\ call'.op = "init" /\ raised' = "ok")
            => (flt'.state = twin'.state /\ flt'.cov = twin'.cov)
       /\ (/\ SingleModel /\ flt.init
           /\ flt.models[1] = twin /\ flt.state = twin.state /\ flt.cov = twin.cov
           /\ call'.op \in {"predict", "correct"} /\ raised' = "ok")
            => (flt'.state = twin'.state /\ flt'.cov = twin'.cov)]_vars

(* C4: after each predict, correct and correct_JPDA of an initialized filter *)
(* its covariance is symmetric.                                              *)
C4_CovSymmetric ==
    (flt.init /\ call.op \in {"predict", "correct", "correct_JPDA"} /\ raised = "ok")
        => Symmetric(flt.cov)
(* a filter initialized with a covariance that is not symmetric has predicted *)
C4_Witness ==
    /\ flt.init /\ call.op = "predict" /\ raised = "ok" /\ calls = 2
    /\ ~IsIMM(flt) /\ flt.order = 2

(* C5: every successful correct of an initialized filter increases the step  *)
(* counter by exactly 1.                                                     *)
C5_CorrectCounts ==
    [][(flt.init /\ call'.op = "correct" /\ raised' = "ok")
          => flt'.len = flt.len + 1]_vars

(* C6: init(state, cov), at any point of a filter's life, leaves the filter  *)
(* with the given state and covariance, initialized and with step counter 0, *)
(* and holding copies: the caller writing into its arrays afterwards does    *)
(* not change the filter.                                                    *)
C6_Init ==
    [][/\ (call'.op = "init" /\ raised' = "ok")
            => /\ flt'.state = call'.state /\ flt'.cov = call'.cov
               /\ flt'.init /\ flt'.len = 0 /\ ~aliased'
       /\ (call.op = "init" /\ call'.op = "mutate") => flt' = flt]_vars
(* a combiner initialized again after a predict (which moved its model        *)
(* probabilities off their defaults)                                           *)
C6_Witness ==
    /\ IsIMM(flt) /\ flt.models_n = 2 /\ call.op = "init" /\ raised = "ok"
    /\ flt.probs[1] # QFrac(1, 2) /\ flt.state = call.state

(* C7: reset on a filter that was never initialized fails (for a combiner:   *)
(* one that has models registered).                                          *)
C7_ResetNeedsInit ==
    (call.op = "reset" /\ ~flt.init /\ (IsIMM(flt) => flt.models_n > 0))
        => raised # "ok"

(* C8: after reset(s, c) on an initialized filter the state and covariance   *)
(* it exposes are s and c, and the initialized flag and the step counter     *)
(* are as before.                                                            *)
C8_ResetFrame ==
    [][(flt.init /\ call'.op = "reset" /\ raised' = "ok")
          => /\ flt'.state = call'.state /\ flt'.cov = call'.cov
             /\ flt'.init = flt.init /\ flt'.len = flt.len]_vars

(* C9: the covariance a filter stores equals its own transpose after init    *)
(* and reset, whatever covariance was given, as after predict and correct.   *)
C9_SymmetrizedOnAssignment ==
    (call.op \in {"init", "reset", "predict", "correct"} /\ raised = "ok" /\ flt.cov # None)
        => Symmetric(flt.cov)

(* C10: the combiner's transition matrix is row-stochastic for every model   *)
(* count, the default matrix included, and no predict, correct, init or      *)
(* reset changes it.                                                         *)
C10_TransMatRowStochastic ==
    [][/\ (IsIMM(flt') /\ flt'.trans_mat # None) => RowStochastic(flt'.trans_mat)
       /\ (IsIMM(flt) /\ call'.op \in {"predict", "correct", "init", "reset"})
            => flt'.trans_mat = flt.trans_mat]_vars

(* C11: on a combiner to which no model was added, init, predict and correct *)
(* each fail with the no-models error (not the not-initialized one) and      *)
(* leave the combiner as it was.                                             *)
C11_NoModels ==
    [][(IsIMM(flt) /\ flt.models_n = 0 /\ call'.op \in {"init", "predict", "correct"})
          => (raised' = NoModels /\ flt' = flt)]_vars

(* C12: once init has succeeded on a combiner, an add_models call changes    *)
(* neither its model list, its type tags, its model count, its probability   *)
(* vector nor its transition matrix.                                         *)
C12_ModelsFixedAfterInit ==
    [][(IsIMM(flt) /\ flt.init /\ call'.op = "add_models")
          => /\ flt'.models = flt.models
             /\ flt'.model_types = flt.model_types
             /\ flt'.models_n = flt.models_n
             /\ flt'.probs = flt.probs
             /\ flt'.trans_mat = flt.trans_mat]_vars

(* C13: in every state of a combiner the model count, the number of          *)
(* registered filters, the number of type tags, the length of the            *)
(* probability vector and both dimensions of the transition matrix are equal. *)
C13_CountsAgree ==
    IsIMM(flt)
        => /\ Len(flt.models) = flt.models_n
           /\ Len(flt.model_types) = flt.models_n
           /\ Len(flt.probs) = flt.models_n
           /\ Rows(flt.trans_mat) = flt.models_n
           /\ Cols(flt.trans_mat) = flt.models_n

(* C14: likelihood(z) of an initialized filter whose covariance has no        *)
(* negative variance is strictly positive: an EKFilterAN / EKFilterNAN        *)
(* returns at least the smallest positive normal float, also when the         *)
(* Gaussian density underflowed to 0, and the combiner's probability-weighted *)
(* sum of its models' likelihoods is positive as well.                        *)
VariancesNonNegative(P) == \A i \in 1..Rows(P) : QSign(P[i][i]) \in {0, 1}
C15_OverridesTransient ==
    [][(~IsIMM(flt) /\ flt.init /\ call'.op \in {"predict", "correct"} /\ raised' = "ok")
          => /\ flt'.L = flt.L /\ flt'.Q = flt.Q
             /\ flt'.M = flt.M /\ flt'.R = flt.R]_vars

(* C16: correct_JPDA(zs, probs) of a filter that does not iterate (it = 0)  *)
(* sets the state to prior + sum_i p_i K_i (z_i - z_pred) and the covariance *)
(* to the symmetrized                                                        *)
(*   (1 - sum_i p_i) P + sum_i p_i (P - K_i S_i K_i') + (sum_i p_i incre_i incre_i' - mean mean') *)
(* with incre_i = K_i (z_i - z_pred) and mean = sum_i p_i incre_i; for       *)
(* p = [0.4, 0.4] the prior covariance enters with weight 0.2.  The closed   *)
(* form is written out here with K and S of the stored noise matrices.       *)
RECURSIVE OuterSum(_, _, _)
OuterSum(p, incres, k) ==
    IF k = 0 THEN ZeroMat(Len(incres[1]), Len(incres[1]))
    ELSE MatAdd(OuterSum(p, incres, k - 1), MatScale(p[k], Outer(incres[k], incres[k])))
ClosedFormCov(P, S, K, p, total, incres, mean) ==
    Symmetrize(MatAdd(MatAdd(MatScale(QSub(QInt(1), total), P),
                             MatScale(total, MatSub(P, MatMul(MatMul(K, S), Transpose(K))))),
                      MatSub(IF Len(p) = 0 THEN ZeroMat(Rows(P), Rows(P))
                             ELSE OuterSum(p, incres, Len(p)),
                             Outer(mean, mean))))
ClosedFormMean(x, P, S, K, p, incres, mean) ==
    <<VecAdd(x, mean), ClosedFormCov(P, S, K, p, QSum(p, Len(p)), incres, mean)>>
ClosedFormGain(x, P, H, S, K, zs, p, incres) ==
    ClosedFormMean(x, P, S, K, p, incres,
                   IF Len(p) = 0 THEN ZeroVec(Len(x)) ELSE WeightedSum(p, incres, Len(p)))
ClosedFormS(x, P, H, S, K, zs, p) ==
    ClosedFormGain(x, P, H, S, K, zs, p,
                   Vec(Len(zs), LAMBDA i : MatVec(K, VecSub(zs[i], MatVec(H, x)))))
ClosedForm(x, P, H, S, zs, p) ==
    ClosedFormS(x, P, H, S, MatMul(MatMul(P, Transpose(H)), Inv(S)), zs, p)
(* M R M' of the additive class, R of the other (its h adds the noise itself) *)
StoredNoise(self) ==
    IF IsAN(self) THEN MatMul(MatMul(self.M, self.R), Transpose(self.M)) ELSE self.R
C16_JPDAClosedForm ==
    [][(~IsIMM(flt) /\ flt.init /\ flt.it = 0
        /\ call'.op = "correct_JPDA" /\ raised' = "ok")
          => <<flt'.state, flt'.cov>> =
                ClosedForm(flt.state, flt.cov, TypeH(flt.type),
                           MatAdd(MatMul(MatMul(TypeH(flt.type), flt.cov),
                                         Transpose(TypeH(flt.type))),
                                  StoredNoise(flt)),
                           call'.state, call'.cov)]_vars
(* two candidates of probability 0.4 each, corrected into a filter of the    *)
(* non-additive class, the resulting covariance not diagonal                 *)
C16_Witness ==
    /\ ~IsIMM(flt) /\ ~IsAN(flt) /\ flt.it = 0
    /\ call.op = "correct_JPDA" /\ raised = "ok"
    /\ call.cov = <<QFrac(2, 5), QFrac(2, 5)>>
    /\ flt.cov[1][2] # QZero

(* C17: the linear reference scenario F = [[1, 1], [0, 1]], H = [1, 0],      *)
(* Q = 0, R = [0.04], x0 = [0, 1], P0 = diag(1, 1).  After init(x0, P0) one   *)
(* predict gives prior state [1, 1] and prior covariance [[2, 1], [1, 1]]     *)
(* (diagonal 2, 1), and correct(z = 1.2) then has innovation 0.2, innovation  *)
(* covariance 2.04, gain about [0.980, 0.490] and gives posterior state about *)
(* [1.196, 1.098] = prior + gain * innovation.                                *)
Reference(self) ==
    /\ ~IsIMM(self) /\ IsAN(self) /\ self.init /\ self.order = 1
    /\ TypeF(self.type) = MatOfInts(<< <<1, 1>>, <<0, 1>> >>)
    /\ TypeH(self.type) = MatOfInts(<< <<1, 0>> >>)
    /\ self.L = Eye(2) /\ self.M = Eye(1)
    /\ self.Q = ZeroMat(2, 2) /\ self.R = << <<QFrac(1, 25)>> >>
(* equal to the decimal n / 1000 when rounded to three places *)
About(x, n) == ~IsNaN(x) /\ QLe(QAbs(QSub(x, QFrac(n, 1000))), QFrac(1, 2000))
InnovCov(P, H, R) == MatAdd(MatMul(MatMul(H, P), Transpose(H)), R)
Gain(P, H, S) == MatMul(MatMul(P, Transpose(H)), Inv(S))
ReferencePredict(priorCov) ==
    (/\ Reference(flt)
     /\ flt.state = VecOfInts(<<0, 1>>) /\ flt.cov = Eye(2)
     /\ call'.op = "predict" /\ call'.cov = NoKw /\ raised' = "ok")
        => (flt'.state = VecOfInts(<<1, 1>>) /\ flt'.cov = priorCov)
ReferenceGain(x, K, innov) ==
    /\ About(K[1][1], 980) /\ About(K[2][1], 490)
    /\ flt'.state = VecAdd(x, MatVec(K, innov))
    /\ About(flt'.state[1], 1196) /\ About(flt'.state[2], 1098)
ReferenceInnov(x, P, H, S, innov) ==
    /\ innov = <<QFrac(1, 5)>>
    /\ S = << <<QFrac(204, 100)>> >>
    /\ ReferenceGain(x, Gain(P, H, S), innov)
ReferenceCorrect(priorCov) ==
    (/\ Reference(flt)
     /\ flt.state = VecOfInts(<<1, 1>>) /\ flt.cov = priorCov
     /\ call'.op = "correct" /\ call'.state = <<QFrac(6, 5)>> /\ call'.cov = NoKw
     /\ raised' = "ok")
        => ReferenceInnov(flt.state, flt.cov, TypeH(flt.type),
                          InnovCov(flt.cov, TypeH(flt.type), flt.R),
                          VecSub(call'.state, MatVec(TypeH(flt.type), flt.state)))
C17_ReferenceScenario ==
    [][/\ ReferencePredict(MatOfInts(<< <<2, 1>>, <<1, 1>> >>))
       /\ ReferenceCorrect(MatOfInts(<< <<2, 1>>, <<1, 1>> >>))]_vars
(* the reference filter after init, predict and correct(1.2) *)
C17_Witness ==
    /\ Reference(flt) /\ call.op = "correct" /\ raised = "ok" /\ calls = 3
    /\ call.state = <<QFrac(6, 5)>>
    /\ flt.state = <<QFrac(61, 51), QFrac(56, 51)>>
(* C17 as first stated: the prior covariance after the predict is diag(2, 1), *)
(* the matrix [[2, 0], [0, 1]].                                               *)
C17_PriorCovDiagonal ==
    [][/\ ReferencePredict(MatOfInts(<< <<2, 0>>, <<0, 1>> >>))
       /\ ReferenceCorrect(MatOfInts(<< <<2, 0>>, <<0, 1>> >>))]_vars

(* C18: a constant-velocity state of 1, 2 or 3 axes switched from 'cv' to    *)
(* 'ca' and back to 'cv' is returned exactly, and so is a covariance; in     *)
(* between the acceleration entries are padded, zero in the state and with   *)
(* variance 100 (and no correlation) in the covariance, the other entries    *)
(* being kept in order.                                                      *)
SwitchOps == {"state_switch", "cov_switch"}
(* the index in the cv state of entry k of the ca state, 0 for an acceleration *)
CvIndex(k) == IF k % 3 = 0 THEN 0 ELSE k - ((k - 1) \div 3)
PaddedState(x, y) ==
    /\ Len(y) = 3 * (Len(x) \div 2)
    /\ \A k \in 1..Len(y) : y[k] = IF CvIndex(k) = 0 THEN QZero ELSE x[CvIndex(k)]
PaddedCov(P, C) ==
    /\ Rows(C) = 3 * (Rows(P) \div 2) /\ Cols(C) = Rows(C)
    /\ \A k, m \in 1..Rows(C) :
          C[k][m] = IF CvIndex(k) = 0 \/ CvIndex(m) = 0
                    THEN (IF k = m THEN QInt(100) ELSE QZero)
                    ELSE P[CvIndex(k)][CvIndex(m)]
C18_RoundTrip ==
    /\ (call.op \in SwitchOps /\ calls = 1 /\ call.type_in = "cv" /\ call.type_out = "ca")
          => /\ raised = "ok"
             /\ call.op = "state_switch" => PaddedState(call.x, ret)
             /\ call.op = "cov_switch" => PaddedCov(call.x, ret)
    /\ (call.op \in SwitchOps /\ calls = 2 /\ call.type_in = "ca" /\ call.type_out = "cv")
          => (raised = "ok" /\ ret = call.from)
(* a covariance of three axes, from 'cv' to 'ca' and back *)
C18_Witness ==
    /\ call.op = "cov_switch" /\ calls = 2 /\ call.type_in = "ca" /\ call.type_out = "cv"
    /\ call.axes = 3 /\ Rows(call.x) = 9 /\ raised = "ok" /\ ret = call.from

(* C19: constructing an EKFilterAN or an EKFilterNAN with order 1 or 2       *)
(* succeeds and stores the order; with any other order it fails with the     *)
(* invalid-order error and there is no filter object.                        *)
C19_OrderChecked ==
    call.op = "new"
        => IF call.order \in {1, 2}
           THEN raised = "ok" /\ flt # None /\ flt.cls = call.cls /\ flt.order = call.order
           ELSE raised = InvalidOrder /\ flt = None
(* an EKFilterNAN refused for order 3 *)
C19_Witness ==
    /\ call.op = "new" /\ call.cls = "EKFilterNAN" /\ call.order = 3
    /\ raised = InvalidOrder /\ flt = None

(* C20: state_switch and cov_switch convert between every ordered pair of    *)
(* the tags 'cv', 'ca' and 'ct2D' (for inputs of two or three axes, and of   *)
(* one axis between 'cv' and 'ca'; a one-axis input has no 'ct2D' form and   *)
(* numpy refuses the product), returning the input itself for equal tags and *)
(* a value of the output type's length otherwise; a call whose input or      *)
(* output tag is none of the three raises the unknown-type error, and so     *)
(* does the init of a combiner one of whose tags is unknown.                 *)
Convertible(c) == c.axes > 1 \/ "ct2D" \notin {c.type_in, c.type_out}
IllShaped(self, state, cov) ==
    Len(state) # self.xdim \/ Rows(cov) # self.xdim \/ Cols(cov) # self.xdim
C21_ShapeChecked ==
    [][(call.op = "new" /\ call'.op = "init" /\ IllShaped(flt, call'.state, call'.cov))
          => (raised' # "ok" /\ flt'.state = None /\ flt'.cov = None)]_vars

(* C22: init(state, cov) on a combiner that is already initialized leaves it *)
(* as a newly built combiner is after its first init: the visible state and  *)
(* covariance are the arguments, every model holds the arguments converted   *)
(* to its type, and the probability vector is the one add_models registered. *)
Registered(in) ==
    IMMFilter_add_models(IMMFilter, in.models, in.model_types, in.probs, in.trans_mat).self.probs
FreshModels(self, state, cov) ==
    \A k \in 1..self.models_n :
        /\ self.models[k].state = state_switch(state, self.model_types[1], self.model_types[k])
        /\ self.models[k].cov = cov_switch(cov, self.model_types[1], self.model_types[k])
C22_ReinitIsFresh ==
    [][(IsIMM(flt) /\ flt.init /\ call'.op = "init" /\ raised' = "ok")
          => /\ flt'.state = call'.state /\ flt'.cov = call'.cov
             /\ FreshModels(flt', call'.state, call'.cov)
             /\ flt'.probs \in {Registered(in) : in \in AddInputs}]_vars

(* C23: the arrays predict and correct return are copies: the caller writing *)
(* into them in place does not change the filter.                            *)
C23_OutputsAreCopies ==
    [][(call.op \in {"predict", "correct"} /\ raised = "ok" /\ call'.op = "mutate")
          => flt' = flt]_vars

(* C24: a predict of the combiner leaves every model i as its own predict    *)
(* leaves it after a reset to the mixed state and covariance of i, and that  *)
(* mix is formed from the states and covariances all the models held when    *)
(* the combiner's predict was entered (not from models already reset).       *)
MixWeights(self) ==
    NormalizeRows(MixingProbs(self.trans_mat, self.probs),
                  RowSums(MixingProbs(self.trans_mat, self.probs)))
SnapshotMix(w, xs, ps, xi, n) == <<xi, Symmetrize(Spread(w, xs, ps, xi, n))>>
SnapshotMixOf(w, xs, ps, n) == SnapshotMix(w, xs, ps, WeightedSum(w, xs, n), n)
MixedFromEntry(self, i) ==
    SnapshotMixOf(MixWeights(self)[i],
                  SwitchedStates(self.models, self.model_types, self.model_types[i],
                                 self.models_n),
                  SwitchedCovs(self.models, self.model_types, self.model_types[i],
                               self.models_n),
                  self.models_n)
ResetThenPredicted(model, mix, kwargs) ==
    Filter_predict(Filter_reset(model, mix[1], mix[2]).self, None, kwargs).self
C24_MixedFromSnapshot ==
    [][(IsIMM(flt) /\ flt.init /\ call'.op = "predict" /\ raised' = "ok")
          => \A i \in 1..flt.models_n :
                flt'.models[i] =
                    ResetThenPredicted(flt.models[i], MixedFromEntry(flt, i), call'.cov)]_vars
(* a combiner of two constant-velocity models whose states had come apart    *)
(* (by a correct) before the predict                                         *)
C24_Witness ==
    /\ IsIMM(flt) /\ flt.models_n = 2 /\ flt.model_types = <<"cv", "cv">>
    /\ call.op = "predict" /\ raised = "ok" /\ calls = 3
    /\ flt.models[1].state # flt.models[2].state

(* C25: a correct of the combiner takes the likelihood of each model on the  *)
(* state and covariance the model holds before its own correct, leaves each  *)
(* model as its own correct leaves it, and sets the probability of model i   *)
(* to prior_i * likelihood_i / sum_j prior_j * likelihood_j, for the values  *)
(* of the densities the call found.                                          *)
PriorLikelihoods(self, z, kwargs, pdfs) ==
    Vec(self.models_n, LAMBDA i : Filter_likelihood(self.models[i], z, kwargs, <<pdfs[i]>>).ret)
BayesTotal(prior, lk, n) == QSum(Vec(n, LAMBDA j : QMul(prior[j], lk[j])), n)
BayesOver(prior, lk, n, total) == Vec(n, LAMBDA i : QDiv(QMul(prior[i], lk[i]), total))
Bayes(prior, lk, n) == BayesOver(prior, lk, n, BayesTotal(prior, lk, n))
MixtureMean(p, xs, n) ==
    Vec(Len(xs[1]), LAMBDA c : QSum(Vec(n, LAMBDA i : QMul(p[i], xs[i][c])), n))
MixtureCov(p, xs, ps, m, n) ==
    Symmetrize(Mat(Len(m), Len(m), LAMBDA r, c :
        QSum(Vec(n, LAMBDA i :
                 QMul(p[i], QAdd(ps[i][r][c],
                                 QMul(QSub(xs[i][r], m[r]), QSub(xs[i][c], m[c]))))), n)))
IsMixture(self, xs, ps) ==
    /\ self.state = MixtureMean(self.probs, xs, self.models_n)
    /\ self.cov = MixtureCov(self.probs, xs, ps, self.state, self.models_n)
C26_VisibleIsMixture ==
    (IsIMM(flt) /\ call.op \in {"predict", "correct"} /\ raised = "ok")
        => /\ IsMixture(flt,
                        SwitchedStates(flt.models, flt.model_types, flt.model_types[1],
                                       flt.models_n),
                        SwitchedCovs(flt.models, flt.model_types, flt.model_types[1],
                                     flt.models_n))
           /\ Len(flt.state) = TypeDim(flt.model_types[1])
           /\ \A i \in 1..flt.models_n :
                  Len(flt.models[i].state) = TypeDim(flt.model_types[i])
(* a constant-velocity and a constant-acceleration model, corrected: the     *)
(* visible state has two entries, the second model's three, and the models   *)
(* disagree on the position                                                  *)
C26_Witness ==
    /\ IsIMM(flt) /\ flt.models_n = 2 /\ flt.model_types = <<"cv", "ca">>
    /\ call.op = "correct" /\ raised = "ok"
    /\ Len(flt.state) = 2 /\ Len(flt.models[2].state) = 3
    /\ flt.models[1].state[1] # flt.models[2].state[1]

(* C27: correct(z) of a filter with it iterations.  The first update is the  *)
(* standard one about the prior (x, P).  Each iteration takes H at the       *)
(* latest state x_k, predicts the measurement as h(x_k) + H (x - x_k), forms *)
(* S = H P H' + R~ and K = P H' inv(S) from the prior covariance P, and sets *)
(* state = x + K innov, cov = P - K S K' (symmetrized), about the prior and  *)
(* not about the previous iterate; with it = 0 the first update is the       *)
(* result.                                                                   *)
UpdateWith(x, P, S, K, innov) ==
    <<VecAdd(x, MatVec(K, innov)),
      Symmetrize(MatSub(P, MatMul(MatMul(K, S), Transpose(K))))>>
UpdateAbout(x, P, H, Rt, innov) ==
    UpdateWith(x, P, Symmetrize(InnovCov(P, H, Rt)),
               Gain(P, H, Symmetrize(InnovCov(P, H, Rt))), innov)
(* z - (h(x_k) + H (x - x_k) + quad), h and its Hessian those of the type *)
InnovAbout(self, x, xk, Pk, z) ==
    VecSub(z, SecondOrder(self.order,
                          VecAdd(MatVec(TypeH(self.type), xk),
                                 MatVec(TypeH(self.type), VecSub(x, xk))),
                          Fn_hhes(self.type, xk), Pk))
RECURSIVE IteratedFrom(_, _, _, _, _, _)
IteratedFrom(self, x, P, Rt, z, k) ==
    IF k = 0 THEN UpdateAbout(x, P, TypeH(self.type), Rt, InnovAbout(self, x, x, P, z))
    ELSE Let(IteratedFrom(self, x, P, Rt, z, k - 1), LAMBDA prev :
             UpdateAbout(x, P, TypeH(self.type), Rt, InnovAbout(self, x, prev[1], prev[2], z)))
C27_IteratedAboutPrior ==
    [][(~IsIMM(flt) /\ flt.init /\ call'.op = "correct" /\ raised' = "ok")
          => <<flt'.state, flt'.cov>> =
                IteratedFrom(flt, flt.state, flt.cov, StoredNoise(flt'), call'.state,
                             flt.it)]_vars
(* a filter that iterates once, corrected after a predict *)
C27_Witness ==
    /\ ~IsIMM(flt) /\ flt.it = 1 /\ flt.init
    /\ call.op = "correct" /\ raised = "ok" /\ calls = 3
    /\ flt.cov[1][2] # QZero

(* C28: a predict of a combiner whose probability vector is non-negative and *)
(* sums to 1 and whose transition matrix is row-stochastic gives every model *)
(* a strictly positive predicted probability sum_j trans_mat[i, j] probs[j], *)
(* and the mixing weights of every destination model, trans_mat[i, j] *      *)
(* probs[j] divided by that sum, are non-negative and sum to 1.              *)
C28_MixingWellDefined ==
    [][(/\ call.op = "IMMFilter.init" /\ raised = "ok"
        /\ Distribution(flt.probs) /\ RowStochastic(flt.trans_mat)
        /\ call'.op = "IMMFilter.predict")
          => \A i \in 1..flt.models_n :
                /\ QLt(QZero, flt'.probs[i])
                /\ Distribution(MixWeights(flt)[i])]_vars

(* C29: on a filter that does not iterate (it = 0), correct_JPDA([z], [1])   *)
(* gives the state and covariance correct(z) gives from the same prior, and  *)
(* correct_JPDA with no candidate, or with association probabilities that    *)
(* are all 0, leaves state and covariance as they were.                      *)
AllZero(probs) == \A i \in 1..Len(probs) : probs[i] = QZero
JPDAReduces(before, after, zs, probs) ==
    /\ (Len(zs) = 1 /\ probs = <<QInt(1)>>)
          => <<after.state, after.cov>> = Filter_correct(before, zs[1], NoKw, << >>).ret
    /\ AllZero(probs) => (after.state = before.state /\ after.cov = before.cov)
C29_JPDABoundaries ==
    [][(~IsIMM(flt) /\ flt.init /\ flt.it = 0
        /\ call'.op = "correct_JPDA" /\ raised' = "ok")
          => JPDAReduces(flt, flt', call'.state, call'.cov)]_vars
(* C29 from a prior covariance that is symmetric, as every covariance is     *)
(* that predict, correct or correct_JPDA stored                              *)
C29_FromSymmetricPrior ==
    [][(~IsIMM(flt) /\ flt.init /\ flt.it = 0 /\ Symmetric(flt.cov)
        /\ call'.op = "correct_JPDA" /\ raised' = "ok")
          => JPDAReduces(flt, flt', call'.state, call'.cov)]_vars

(* C30: distance(z) and likelihood(z), with or without overrides, leave the  *)
(* filter as it was: state, covariance, stored noise matrices, step counter, *)
(* initialized flag and, for a combiner, its models and probabilities; so    *)
(* what a later predict or correct does is what it does without the query.   *)
C30_QueriesArePure ==
    [][call'.op \in Queries => flt' = flt]_vars
(* a distance under the override R = [2] on an initialized filter that       *)
(* stores R = [1]: det(S) is P[0, 0] + 2 and the stored R is still [1]       *)
C30_Witness ==
    /\ ~IsIMM(flt) /\ IsAN(flt) /\ flt.init /\ flt.R = R1
    /\ call.op = "distance" /\ raised = "ok"
    /\ ret.logdet = QAdd(flt.cov[1][1], QInt(2))

====
